---- MODULE Spec2Model ----
(***************************************************************************)
(* A model of optionset (src/optionset/optionset.py): the line classifier, *)
(* the per-line scope state machine, the file processor and the run        *)
(* driver.                                                                 *)
(*                                                                         *)
(* A line is a sequence of tokens.  A token is one of                      *)
(*   [k |-> "ws"]                whitespace                                *)
(*   [k |-> "txt"]               host-language text that is neither        *)
(*                               whitespace nor a comment indicator        *)
(*   [k |-> "val", v |-> s]      host-language text s that the regex of a  *)
(*                               variable setting captures                 *)
(*   [k |-> "ind", c |-> c]      the comment indicator c ("//", "#", ...)  *)
(*   [k |-> "ann", mtag, optn, setting]                                    *)
(*                               the text " [*]<tag><raw_opt> <setting> "  *)
(*                               (an annotation with its delimiting        *)
(*                               whitespace)                               *)
(* The regular expressions of the source are evaluated on these tokens.    *)
(***************************************************************************)
EXTENDS Integers, Sequences, FiniteSets, TLC

VARIABLES
    disk,                 \* the files below the working directory: Seq of files, a file is a Seq of lines
    plan,                 \* command lines still to be run (argument records)
    pc,                   \* position of the driver
    args,                 \* parsed command line of the run in progress
    inp,                  \* InputDb of the run in progress
    fidx,                 \* index in disk of the file being processed
    fdb,                  \* FileVarsDatabase of the file being processed
    newlines,             \* output buffer of _process_file
    optns_settings_db,    \* availability database
    var_optns_values_db,  \* variable options database
    show_files_db,        \* option -> files database
    re_vars,              \* the module-level dictionary GENERIC_RE_VARS
    before,               \* history: disk when the run in progress started
    written,              \* history: indices of the files rewritten by the run in progress
    pre,                  \* history: fdb as it was before each processed line of the current file
    runs                  \* history: one record per finished run

vars == <<disk, plan, pc, args, inp, fidx, fdb, newlines, optns_settings_db,
          var_optns_values_db, show_files_db, re_vars, before, written, pre, runs>>

----------------------------------------------------------------------------
(* Tokens *)

WS == [k |-> "ws"]
TXT == [k |-> "txt"]
Val(v) == [k |-> "val", v |-> v]
Ind(c) == [k |-> "ind", c |-> c]
Ann(m, o, s) == [k |-> "ann", mtag |-> m, optn |-> o, setting |-> s]

\* ANY_COMMENT_IND: two of the five indicators are enough to tell a file's own
\* indicator from a foreign one
ANY_COMMENT_IND == {"//", "#"}

\* what GENERIC_RE_VARS['com_ind'] holds before any file is processed
ANY_IND == "ANY"

IsWs(t) == t.k = "ws"
IsAnn(t) == t.k = "ann"
IsAnyInd(t) == t.k = "ind"
\* does token t start a match of the regular expression com_ind?
IsInd(t, c) == t.k = "ind" /\ (c = ANY_IND \/ t.c = c)

\* ANY_VAR_SETTING: the settings of the form ='<regex>'; the name tells the
\* number of capture groups of the regex
VarRe0 == "='x .*;'"
VarRe1 == "='x (.*);'"
VarRe2 == "='x (.) (.*);'"
\* two capture groups with nothing between them
VarRe2Adjacent == "='x (.)(.*);'"
ANY_VAR_SETTING == {VarRe0, VarRe1, VarRe2, VarRe2Adjacent}

SubSeqFrom(s, i) == SubSeq(s, i, Len(s))
RemoveAt(s, i) == SubSeq(s, 1, i - 1) \o SubSeqFrom(s, i + 1)

\* first position >= i of s that holds no whitespace (Len(s)+1 if none): \s*
RECURSIVE SkipWs(_, _)
SkipWs(s, i) == IF i <= Len(s) /\ IsWs(s[i]) THEN SkipWs(s, i + 1) ELSE i

\* first position >= i of s that holds the indicator c (Len(s)+1 if none):
\* the end of (?:(?!com_ind).)*
RECURSIVE FirstInd(_, _, _)
FirstInd(s, c, i) ==
    IF i <= Len(s) /\ ~IsInd(s[i], c) THEN FirstInd(s, c, i + 1) ELSE i

----------------------------------------------------------------------------
(* Line mutators *)

\* _uncomment with the indicator removed at column 0 only
uncomment_at_column_0(line, c) ==
    IF 1 <= Len(line) /\ IsInd(line[1], c) THEN RemoveAt(line, 1) ELSE line

\* _uncomment: re.sub(^(\s*)(com_ind), \1, line)
uncomment(line, c) ==
    LET p == SkipWs(line, 1)
    IN IF p <= Len(line) /\ IsInd(line[p], c) THEN RemoveAt(line, p) ELSE line

\* _comment with a blank between the indicator and the line
comment_with_blank(line, c) == <<Ind(c), WS>> \o line

\* _comment: com_ind + line
comment(line, c) == <<Ind(c)>> \o line

----------------------------------------------------------------------------
(* Line classifier *)

HasAnn(s) == \E i \in 1..Len(s) : IsAnn(s[i])
AnnsOf(s) == SelectSeq(s, IsAnn)

\* position after n repetitions of \s*com_ind starting at i, 0 if they do not
\* match: the group nested_com_inds
RECURSIVE NestedEnd(_, _, _, _)
NestedEnd(line, c, n, i) ==
    IF n = 0 THEN i
    ELSE LET p == SkipWs(line, i)
         IN IF p <= Len(line) /\ IsInd(line[p], c)
            THEN NestedEnd(line, c, n - 1, p + 1)
            ELSE 0

NoMatch == [ok |-> FALSE, nested_com_inds |-> <<>>, non_com |-> <<>>,
            whole_com |-> <<>>, com_ind |-> "None"]

\* the groups of a match that has its non_com in line[p..z-1] and the
\* indicator of WHOLE_COMMENT at z; whole_com must hold an annotation
Groups(line, p, z) ==
    IF z <= Len(line) /\ HasAnn(SubSeqFrom(line, z + 1))
    THEN [ok |-> TRUE, nested_com_inds |-> SubSeq(line, 1, p - 1),
          non_com |-> SubSeq(line, p, z - 1),
          whole_com |-> SubSeqFrom(line, z + 1), com_ind |-> line[z].c]
    ELSE NoMatch

\* UNCOMMD_LINE with com_ind c and nested level n: after nested_com_inds,
\* non_com is one or more characters up to the first indicator
UNCOMMD_LINE(line, c, n) ==
    LET p == NestedEnd(line, c, n, 1)
    IN IF p = 0 \/ p > Len(line) \/ IsInd(line[p], c) THEN NoMatch
       ELSE Groups(line, p, FirstInd(line, c, p))

\* COMMD_LINE with com_ind c and nested level n: after nested_com_inds,
\* non_com is \s*, an indicator, and one or more characters up to the next
\* indicator
COMMD_LINE(line, c, n) ==
    LET p == NestedEnd(line, c, n, 1)
        q == IF p = 0 THEN 0 ELSE SkipWs(line, p)
    IN IF p = 0 \/ q > Len(line) \/ ~IsInd(line[q], c) THEN NoMatch
       ELSE IF q + 1 > Len(line) \/ IsInd(line[q + 1], c) THEN NoMatch
       ELSE Groups(line, p, FirstInd(line, c, q + 1))

\* lines 909-919: the groups of the match m, f_comment, and the annotations
\* found in whole_com
LineGroups(f_comment, matched, m) ==
    [f_comment |-> f_comment, matched |-> matched,
     nested_com_inds |-> m.nested_com_inds, non_com |-> m.non_com,
     whole_com |-> m.whole_com,
     tag_optn_setting_matches |-> AnnsOf(m.whole_com)]

\* lines 909-917: the commented match is taken before the uncommented one
LineMatch(commd_line_match, uncommd_line_match) ==
    LineGroups(commd_line_match.ok,
               commd_line_match.ok \/ uncommd_line_match.ok,
               IF commd_line_match.ok THEN commd_line_match
               ELSE uncommd_line_match)

\* _process_line, lines 904-919: both regexes are searched
Classify(line, c, n) ==
    LineMatch(COMMD_LINE(line, c, n), UNCOMMD_LINE(line, c, n))

\* _get_comment_indicator: the first line that starts with an indicator
\* decides; failing that, the first line UNCOMMD_LINE matches, with the
\* regex variables as GENERIC_RE_VARS holds them at that moment (rv)
RECURSIVE FirstLeadingInd(_, _)
FirstLeadingInd(file, i) ==
    IF i > Len(file) THEN "None"
    ELSE LET p == SkipWs(file[i], 1)
         IN IF p <= Len(file[i]) /\ IsAnyInd(file[i][p]) THEN file[i][p].c
            ELSE FirstLeadingInd(file, i + 1)

RECURSIVE FirstInlineInd(_, _, _)
FirstInlineInd(file, rv, i) ==
    IF i > Len(file) THEN "None"
    ELSE LET m == UNCOMMD_LINE(file[i], rv.com_ind, rv.nested_lvl)
         IN IF m.ok THEN m.com_ind ELSE FirstInlineInd(file, rv, i + 1)

get_comment_indicator(file, rv) ==
    LET a == FirstLeadingInd(file, 1)
    IN IF a # "None" THEN a ELSE FirstInlineInd(file, rv, 1)

----------------------------------------------------------------------------
(* Options, settings and the availability databases *)

\* str.replace('\\', ''), on a sequence of characters
RECURSIVE Unescape(_)
Unescape(s) ==
    IF s = <<>> THEN <<>>
    ELSE IF Head(s) = "\\" THEN Unescape(Tail(s))
    ELSE <<Head(s)>> \o Unescape(Tail(s))

\* the option the run asks for, as lines 937 and 1029 compare it
InpOptn(in) == Unescape(in.tag \o in.raw_opt)

\* _check_varop_groups: the number of matches re.findall returns for
\* [^\\]\(.*?[^\\]\) in the regex.  The matches do not overlap, and each
\* starts one character before its parenthesis: of two groups with nothing
\* between them the second is not counted, because the character before its
\* parenthesis belongs to the match of the first
VaropGroups(setting) ==
    IF setting = VarRe0 THEN 0
    ELSE IF setting \in {VarRe1, VarRe2Adjacent} THEN 1
    ELSE 2

\* re.search(inline_re, non_com): the regex matches at the first captured
\* value of non_com, 0 if it matches nowhere
RECURSIVE FirstVal(_, _)
FirstVal(s, i) ==
    IF i > Len(s) THEN 0 ELSE IF s[i].k = "val" THEN i ELSE FirstVal(s, i + 1)

\* _parse_inline_regex: the captured string, or the error that ends the run
parse_inline_regex(non_com, setting) ==
    LET i == FirstVal(non_com, 1)
    IN IF VaropGroups(setting) # 1 \/ i = 0
       THEN [ok |-> FALSE, str |-> ""]
       ELSE [ok |-> TRUE, str |-> non_com[i].v]

\* _set_var_optn with the line put together without its indicator
set_var_optn_without_indicator(com_ind, replace_str, nested_com_inds, non_com, whole_com) ==
    LET new_non_com == [i \in 1..Len(non_com) |->
                           IF non_com[i].k = "val" THEN Val(replace_str)
                           ELSE non_com[i]]
    IN nested_com_inds \o new_non_com \o whole_com

\* _set_var_optn: re.sub replaces the captured group of every match in
\* non_com; the line is put together again from its groups
set_var_optn(com_ind, replace_str, nested_com_inds, non_com, whole_com) ==
    LET new_non_com == [i \in 1..Len(non_com) |->
                           IF non_com[i].k = "val" THEN Val(replace_str)
                           ELSE non_com[i]]
    IN nested_com_inds \o new_non_com \o <<Ind(com_ind)>> \o whole_com

\* a dictionary with one more entry
Put(d, key, v) == [x \in DOMAIN d \cup {key} |-> IF x = key THEN v ELSE d[x]]
Pop(d, key) == [x \in DOMAIN d \ {key} |-> d[x]]
\* optns_settings_db[optn][setting] of the defaultdict: None when absent
Get(d, key) == IF key \in DOMAIN d THEN d[key] ELSE "None"

CountOptn(matches, optn) ==
    Cardinality({i \in 1..Len(matches) : matches[i].optn = optn})

\* lines 1009-1024 with an entry left as it is once the option was seen
\* more than once on a line
Observe_both_sticky(db, key, f_comment, count) ==
    LET cur == Get(db, key)
        now == IF f_comment THEN "False" ELSE "True"
    IN IF key \in DOMAIN db /\ cur = "None" THEN db
       ELSE IF cur = "None"
       THEN Put(db, key, IF count > 1 THEN "None" ELSE now)
       ELSE IF cur # now THEN Put(db, key, "?")
       ELSE db

\* lines 1009-1024 with the first observation kept as the state
Observe_first_wins(db, key, f_comment, count) ==
    LET cur == Get(db, key)
        now == IF f_comment THEN "False" ELSE "True"
    IN IF cur = "None"
       THEN Put(db, key, IF count > 1 THEN "None" ELSE now)
       ELSE db

\* lines 1009-1024 with the last observation taken as the state
Observe_last_wins(db, key, f_comment, count) ==
    LET cur == Get(db, key)
        now == IF f_comment THEN "False" ELSE "True"
    IN IF cur = "None"
       THEN Put(db, key, IF count > 1 THEN "None" ELSE now)
       ELSE IF cur # now THEN Put(db, key, now)
       ELSE db

\* lines 1009-1024: one observation of (optn, setting) in a discovery run
Observe(db, key, f_comment, count) ==
    LET cur == Get(db, key)
        now == IF f_comment THEN "False" ELSE "True"
    IN IF cur = "None"
       THEN Put(db, key, IF count > 1 THEN "None" ELSE now)
       ELSE IF cur # now THEN Put(db, key, "?")
       ELSE db

----------------------------------------------------------------------------
(* _process_line *)

None == "None"

\* FileVarsDatabase.__init__
FileVarsDatabase(com_ind) ==
    [f_filemodified |-> FALSE, f_multiline_active |-> FALSE,
     f_multicommd |-> None, nested_lvl |-> 0, nested_increment |-> 0,
     com_ind |-> com_ind, nested_optn_db |-> <<>>]

\* lines 925-942
inline_optn_match(in, matches, optn) ==
    InpOptn(in) = optn /\ \E i \in 1..Len(matches) : matches[i].optn = optn

inline_setting_match(in, matches, optn) ==
    /\ InpOptn(in) = optn
    /\ \E i \in 1..Len(matches) :
          matches[i].optn = optn /\ matches[i].setting = in.setting

f_inline_optn_match(in, matches) ==
    \E i \in 1..Len(matches) : matches[i].optn = InpOptn(in)

f_inline_setting_match(in, matches) ==
    \E i \in 1..Len(matches) :
        matches[i].optn = InpOptn(in) /\ matches[i].setting = in.setting

\* re.sub of INLINE_OPTN_SETTING over whole_com: the annotations of option
\* optn (and of setting setting, unless it is "" for any setting) are
\* rewritten left to right.  A match takes the whitespace after its setting,
\* so an annotation that follows a rewritten one directly is matched only
\* through its multi-line marker.
RECURSIVE INLINE_OPTN_SETTING(_, _, _, _, _, _, _)
INLINE_OPTN_SETTING(whole_com, i, taken, optn, setting, new_optn, new_setting) ==
    IF i > Len(whole_com) THEN whole_com
    ELSE LET t == whole_com[i]
             hit == /\ IsAnn(t)
                    /\ t.optn = optn
                    /\ (setting = "" \/ t.setting = setting)
                    /\ (t.mtag \/ ~taken)
             new == IF ~hit THEN t
                    ELSE Ann(t.mtag,
                             IF new_optn = <<>> THEN t.optn ELSE new_optn,
                             IF new_setting = "" THEN t.setting ELSE new_setting)
         IN INLINE_OPTN_SETTING([whole_com EXCEPT ![i] = new], i + 1, hit,
                                optn, setting, new_optn, new_setting)

\* lines 944-967
\* lines 952 and 964: the line put together again around a new whole_com
Rebuilt(cl, f, new_whole_com) ==
    cl.nested_com_inds \o cl.non_com \o <<Ind(f.com_ind)>> \o new_whole_com

\* digits, and the settings of the model that start with one.  The
\* replacement template of re.sub is a group reference followed by the new
\* name: before a digit the reference reads as a group of two digits, which
\* the pattern does not have, and re.sub raises re.error
Digits == {"1"}
DigitSettings == {"1"}

\* lines 957-967 with the file flagged as modified by every line of a
\* rename run
RenameSetting_flags_always(line, cl, in, f, osdb, vardb, do_optn, do_setting, new_whole_com) ==
    [newline |-> IF do_setting
                 THEN Rebuilt(cl, f, INLINE_OPTN_SETTING(
                          new_whole_com, 1, FALSE,
                          IF in.rename_optn # <<>> THEN in.rename_optn
                          ELSE InpOptn(in),
                          in.setting, <<>>, in.rename_setting))
                 ELSE IF do_optn THEN Rebuilt(cl, f, new_whole_com)
                 ELSE line,
     fdb |-> [f EXCEPT !.f_filemodified = TRUE],
     osdb |-> osdb, vardb |-> vardb,
     err |-> IF do_setting /\ in.rename_setting \in DigitSettings
             THEN "re.error" ELSE ""]

\* lines 957-967: the setting is renamed in new_whole_com
RenameSetting(line, cl, in, f, osdb, vardb, do_optn, do_setting, new_whole_com) ==
    [newline |-> IF do_setting
                 THEN Rebuilt(cl, f, INLINE_OPTN_SETTING(
                          new_whole_com, 1, FALSE,
                          IF in.rename_optn # <<>> THEN in.rename_optn
                          ELSE InpOptn(in),
                          in.setting, <<>>, in.rename_setting))
                 ELSE IF do_optn THEN Rebuilt(cl, f, new_whole_com)
                 ELSE line,
     fdb |-> [f EXCEPT !.f_filemodified = @ \/ do_optn \/ do_setting],
     osdb |-> osdb, vardb |-> vardb,
     err |-> IF do_setting /\ in.rename_setting \in DigitSettings
             THEN "re.error" ELSE ""]

\* lines 946-955: the option is renamed in whole_com
RenameOptn(line, cl, in, f, osdb, vardb, do_optn, do_setting) ==
    IF do_optn /\ Head(in.rename_optn) \in Digits
    THEN [newline |-> line, fdb |-> f, osdb |-> osdb, vardb |-> vardb,
          err |-> "re.error"]
    ELSE RenameSetting(line, cl, in, f, osdb, vardb, do_optn, do_setting,
                       IF do_optn
                       THEN INLINE_OPTN_SETTING(cl.whole_com, 1, FALSE,
                                                InpOptn(in), "",
                                                in.rename_optn, "")
                       ELSE cl.whole_com)

\* lines 944-967
Rename(line, cl, in, f, osdb, vardb) ==
    RenameOptn(line, cl, in, f, osdb, vardb,
               f_inline_optn_match(in, cl.tag_optn_setting_matches)
               /\ in.rename_optn # <<>>,
               f_inline_setting_match(in, cl.tag_optn_setting_matches)
               /\ in.rename_setting # "")

\* lines 988-1005 with the increment added up over the markers of a line
NestedLogic_adds_up(S, ann, line, in, ms) ==
    LET f == S.fdb
    IN IF ~ann.mtag THEN [S EXCEPT !.closed = FALSE]
       ELSE IF S.f_comment
       THEN [S EXCEPT !.closed = FALSE,
                      !.fdb.nested_optn_db = Put(@, f.nested_lvl, ann.optn),
                      !.fdb.nested_increment = @ + 1]
       ELSE IF DOMAIN f.nested_optn_db = {} THEN [S EXCEPT !.closed = FALSE]
       ELSE IF (f.nested_lvl - 1) \notin DOMAIN f.nested_optn_db
       THEN [S EXCEPT !.err = "KeyError"]
       ELSE IF f.nested_optn_db[f.nested_lvl - 1] = ann.optn
       THEN [S EXCEPT !.closed = TRUE,
                      !.fdb.nested_optn_db = Pop(@, f.nested_lvl - 1),
                      !.fdb.nested_increment = -1,
                      !.f_comment = TRUE,
                      !.fdb.f_multiline_active = FALSE,
                      !.freeze = TRUE,
                      !.newline = IF inline_setting_match(in, ms, ann.optn)
                                  THEN uncomment(line, f.com_ind) ELSE @]
       ELSE [S EXCEPT !.closed = FALSE]

\* lines 988-1005: nesting bookkeeping of one annotation.  closed tells that
\* the annotation closed a commented scope (the loop continues with the next
\* annotation, which the freeze skips).
NestedLogic(S, ann, line, in, ms) ==
    LET f == S.fdb
    IN IF ~ann.mtag THEN [S EXCEPT !.closed = FALSE]
       ELSE IF S.f_comment
       THEN [S EXCEPT !.closed = FALSE,
                      !.fdb.nested_optn_db = Put(@, f.nested_lvl, ann.optn),
                      !.fdb.nested_increment = 1]
       ELSE IF DOMAIN f.nested_optn_db = {} THEN [S EXCEPT !.closed = FALSE]
       ELSE IF (f.nested_lvl - 1) \notin DOMAIN f.nested_optn_db
       THEN [S EXCEPT !.err = "KeyError"]
       ELSE IF f.nested_optn_db[f.nested_lvl - 1] = ann.optn
       THEN [S EXCEPT !.closed = TRUE,
                      !.fdb.nested_optn_db = Pop(@, f.nested_lvl - 1),
                      !.fdb.nested_increment = -1,
                      !.f_comment = TRUE,
                      !.fdb.f_multiline_active = FALSE,
                      !.freeze = TRUE,
                      !.newline = IF inline_setting_match(in, ms, ann.optn)
                                  THEN uncomment(line, f.com_ind) ELSE @]
       ELSE [S EXCEPT !.closed = FALSE]

\* lines 1009-1024: build the databases of available options and settings
Discover(S, ann, cl, in, ms) ==
    IF ~(in.f_available \/ in.f_showfiles \/ in.f_bashcomp) THEN S
    ELSE IF ann.setting \in ANY_VAR_SETTING /\ ~S.f_comment
    THEN LET r == parse_inline_regex(cl.non_com, ann.setting)
         IN IF r.ok THEN [S EXCEPT !.vardb = @ \cup {<<ann.optn, r.str>>}]
            ELSE [S EXCEPT !.err = "InvalidVariableRegex"]
    ELSE [S EXCEPT !.osdb = Observe(@, <<ann.optn, ann.setting>>, S.f_comment,
                                    CountOptn(ms, ann.optn))]

\* lines 1034-1039 and 1062-1071: an annotation with a multi-line marker
\* opens a scope, or closes the open one
ToggleMulti(S, ann, freeze) ==
    IF ~ann.mtag THEN S
    ELSE IF ~S.fdb.f_multiline_active
    THEN [S EXCEPT !.fdb.f_multiline_active = TRUE,
                   !.fdb.f_multicommd = IF S.f_comment THEN "True" ELSE "False",
                   !.freeze = @ \/ freeze]
    ELSE [S EXCEPT !.fdb.f_multiline_active = FALSE,
                   !.fdb.f_multicommd = None,
                   !.freeze = @ \/ freeze]

\* lines 1026-1077 with the indicator put before the line as changed so far
Modify_comments_newline(S, ann, line, cl, in, ms) ==
    LET c == S.fdb.com_ind
    IN IF in.f_available \/ in.f_showfiles THEN S
       ELSE IF InpOptn(in) # ann.optn THEN S
       ELSE IF S.f_comment
       THEN IF in.setting = ann.setting
            THEN ToggleMulti([S EXCEPT !.newline = uncomment(line, c)], ann, FALSE)
            ELSE S
       ELSE IF ann.setting \in ANY_VAR_SETTING
       THEN LET r == parse_inline_regex(cl.non_com, ann.setting)
            IN IF ~r.ok THEN [S EXCEPT !.err = "InvalidVariableRegex"]
               ELSE IF in.setting = r.str THEN S
               ELSE [S EXCEPT !.newline = set_var_optn(c, in.setting,
                                              cl.nested_com_inds, cl.non_com,
                                              cl.whole_com),
                              !.freeze = TRUE]
       ELSE IF inline_optn_match(in, ms, ann.optn)
               /\ ~inline_setting_match(in, ms, ann.optn)
       THEN ToggleMulti([S EXCEPT !.newline = comment(@, c)], ann, TRUE)
       ELSE S

\* lines 1026-1077 with a commented line uncommented whatever its setting
Modify_ignores_setting(S, ann, line, cl, in, ms) ==
    LET c == S.fdb.com_ind
    IN IF in.f_available \/ in.f_showfiles THEN S
       ELSE IF InpOptn(in) # ann.optn THEN S
       ELSE IF S.f_comment
       THEN ToggleMulti([S EXCEPT !.newline = uncomment(line, c)], ann, FALSE)
       ELSE IF ann.setting \in ANY_VAR_SETTING
       THEN LET r == parse_inline_regex(cl.non_com, ann.setting)
            IN IF ~r.ok THEN [S EXCEPT !.err = "InvalidVariableRegex"]
               ELSE IF in.setting = r.str THEN S
               ELSE [S EXCEPT !.newline = set_var_optn(c, in.setting,
                                              cl.nested_com_inds, cl.non_com,
                                              cl.whole_com),
                              !.freeze = TRUE]
       ELSE IF inline_optn_match(in, ms, ann.optn)
               /\ ~inline_setting_match(in, ms, ann.optn)
       THEN ToggleMulti([S EXCEPT !.newline = comment(line, c)], ann, TRUE)
       ELSE S

\* lines 1026-1077 with a variable setting taken as an ordinary setting
Modify_without_variable_branch(S, ann, line, cl, in, ms) ==
    LET c == S.fdb.com_ind
    IN IF in.f_available \/ in.f_showfiles THEN S
       ELSE IF InpOptn(in) # ann.optn THEN S
       ELSE IF S.f_comment
       THEN IF in.setting = ann.setting
            THEN ToggleMulti([S EXCEPT !.newline = uncomment(line, c)], ann, FALSE)
            ELSE S
       ELSE IF inline_optn_match(in, ms, ann.optn)
               /\ ~inline_setting_match(in, ms, ann.optn)
       THEN ToggleMulti([S EXCEPT !.newline = comment(line, c)], ann, TRUE)
       ELSE S

\* lines 1026-1077 without the test of the requested option
Modify_any_option(S, ann, line, cl, in, ms) ==
    LET c == S.fdb.com_ind
    IN IF in.f_available \/ in.f_showfiles THEN S
       ELSE IF S.f_comment
       THEN IF in.setting = ann.setting
            THEN ToggleMulti([S EXCEPT !.newline = uncomment(line, c)], ann, FALSE)
            ELSE S
       ELSE IF ann.setting \in ANY_VAR_SETTING
       THEN LET r == parse_inline_regex(cl.non_com, ann.setting)
            IN IF ~r.ok THEN [S EXCEPT !.err = "InvalidVariableRegex"]
               ELSE IF in.setting = r.str THEN S
               ELSE [S EXCEPT !.newline = set_var_optn(c, in.setting,
                                              cl.nested_com_inds, cl.non_com,
                                              cl.whole_com),
                              !.freeze = TRUE]
       ELSE IF inline_optn_match(in, ms, ann.optn)
               /\ ~inline_setting_match(in, ms, ann.optn)
       THEN ToggleMulti([S EXCEPT !.newline = comment(line, c)], ann, TRUE)
       ELSE S

\* lines 1026-1077: modify the line based on the input and the matches
Modify(S, ann, line, cl, in, ms) ==
    LET c == S.fdb.com_ind
    IN IF in.f_available \/ in.f_showfiles THEN S
       ELSE IF InpOptn(in) # ann.optn THEN S
       ELSE IF S.f_comment
       THEN IF in.setting = ann.setting
            THEN ToggleMulti([S EXCEPT !.newline = uncomment(line, c)], ann, FALSE)
            ELSE S
       ELSE IF ann.setting \in ANY_VAR_SETTING
       THEN LET r == parse_inline_regex(cl.non_com, ann.setting)
            IN IF ~r.ok THEN [S EXCEPT !.err = "InvalidVariableRegex"]
               ELSE IF in.setting = r.str THEN S
               ELSE [S EXCEPT !.newline = set_var_optn(c, in.setting,
                                              cl.nested_com_inds, cl.non_com,
                                              cl.whole_com),
                              !.freeze = TRUE]
       ELSE IF inline_optn_match(in, ms, ann.optn)
               /\ ~inline_setting_match(in, ms, ann.optn)
       THEN ToggleMulti([S EXCEPT !.newline = comment(line, c)], ann, TRUE)
       ELSE S

\* lines 1009-1077 for one annotation, unless the run has ended in an error
DiscoverModify(S, ann, line, cl, in, ms) ==
    IF S.err # "" THEN S ELSE Modify(S, ann, line, cl, in, ms)

\* lines 1005-1024 for one annotation: an annotation that closed a scope
\* goes no further (continue)
NestedDiscover(S, ann, line, cl, in, ms) ==
    IF S.err # "" \/ S.closed THEN S
    ELSE DiscoverModify(Discover(S, ann, cl, in, ms), ann, line, cl, in, ms)

\* lines 988-1077: the body of the loop for one annotation
Match(S, ann, line, cl, in, ms) ==
    NestedDiscover(NestedLogic(S, ann, line, in, ms), ann, line, cl, in, ms)

\* lines 980-1077: the loop over the annotations of the line
RECURSIVE MatchLoop(_, _, _, _, _, _)
MatchLoop(S, i, line, cl, in, ms) ==
    IF i > Len(ms) \/ S.err # "" THEN S
    ELSE IF S.freeze THEN MatchLoop(S, i + 1, line, cl, in, ms)
    ELSE MatchLoop(Match(S, ms[i], line, cl, in, ms), i + 1, line, cl, in, ms)

\* lines 899-901: adjust the nested level
AdjustNestedLevel(f0) ==
    [f0 EXCEPT !.nested_lvl = @ + f0.nested_increment, !.nested_increment = 0]

\* lines 969-978: a line inside an active multi-line scope that does not
\* name the requested option is toggled, and its annotations are skipped
MultiLine(line, f, in, osdb, vardb, cl, inherit) ==
    [newline |-> IF ~inherit THEN line
                 ELSE IF f.f_multicommd = "True"
                 THEN uncomment(line, f.com_ind) ELSE comment(line, f.com_ind),
     freeze |-> inherit, f_comment |-> cl.f_comment, closed |-> FALSE,
     fdb |-> f, osdb |-> osdb, vardb |-> vardb, err |-> ""]

\* lines 1079-1082: the file is modified if the line is changed
Changed(S, line) ==
    [newline |-> S.newline,
     fdb |-> [S.fdb EXCEPT !.f_filemodified = @ \/ (S.newline # line)],
     osdb |-> S.osdb, vardb |-> S.vardb, err |-> S.err]

\* lines 944-1082 with only the lines without annotations toggled inside an
\* active scope
MatchedLine_inherits_bare_lines(line, f, in, osdb, vardb, cl) ==
    IF in.rename_optn # <<>> \/ in.rename_setting # ""
    THEN Rename(line, cl, in, f, osdb, vardb)
    ELSE Changed(MatchLoop(MultiLine(line, f, in, osdb, vardb, cl,
                                     f.f_multiline_active
                                     /\ cl.tag_optn_setting_matches = <<>>),
                           1, line, cl, in, cl.tag_optn_setting_matches),
                 line)

\* lines 944-1082 for a line with the groups and annotations cl
MatchedLine(line, f, in, osdb, vardb, cl) ==
    IF in.rename_optn # <<>> \/ in.rename_setting # ""
    THEN Rename(line, cl, in, f, osdb, vardb)
    ELSE Changed(MatchLoop(MultiLine(line, f, in, osdb, vardb, cl,
                                     f.f_multiline_active
                                     /\ ~f_inline_optn_match(
                                            in, cl.tag_optn_setting_matches)),
                           1, line, cl, in, cl.tag_optn_setting_matches),
                 line)

\* lines 904-1082 at the nested level of f
ClassifiedLine(line, f, in, osdb, vardb) ==
    MatchedLine(line, f, in, osdb, vardb,
                Classify(line, f.com_ind, f.nested_lvl))

\* _process_line: the new line, the file variables and the databases after
\* the line; err names the error that ends the run, if any
process_line(line, f0, in, osdb, vardb) ==
    ClassifiedLine(line, AdjustNestedLevel(f0), in, osdb, vardb)

----------------------------------------------------------------------------
(* Input validation *)

MULTI_TAG == "*"
\* characters ANY_TAG accepts, and characters of ANY_WORD
TagChars == {"@", "~"}
WordChars == {"o", "p", "n", "q", "f", "r", "c", "e", "s"}

\* the regular expressions a discovery run searches with, as one character
\* each: no option of a file equals them
ANY_TAG == <<"ANY_TAG">>
ANY_RAW_OPTN == <<"ANY_WORD">>

RECURSIVE SkipChars(_, _, _)
SkipChars(s, i, set) ==
    IF i <= Len(s) /\ s[i] \in set THEN SkipChars(s, i + 1, set) ELSE i

\* the newline character
NL == "\n"

\* the $ of a regular expression: the end of the string, or the place before
\* a newline that ends the string
AtDollar(s, i) == i = Len(s) + 1 \/ (i = Len(s) /\ s[i] = NL)

\* _check_optn_fmt: ^(mtag*)(tag+)(raw_opt)$; every character of the tag is
\* escaped
check_optn_fmt(optn_str) ==
    LET t == SkipChars(optn_str, 1, {MULTI_TAG})
        r == SkipChars(optn_str, t, TagChars)
        e == SkipChars(optn_str, r, WordChars)
    IN IF r > t /\ e > r /\ AtDollar(optn_str, e)
       THEN [ok |-> TRUE,
             tag |-> [i \in 1..(2 * (r - t)) |->
                         IF i % 2 = 1 THEN "\\" ELSE optn_str[t + (i \div 2) - 1]],
             raw_opt |-> SubSeq(optn_str, r, e - 1)]
       ELSE [ok |-> FALSE, tag |-> <<>>, raw_opt |-> <<>>]

\* _check_setting_fmt: ^(?: |ANY_WORD)+$; of the settings of the model the
\* variable settings (an equals sign, quotes) do not match
check_setting_fmt(setting_str) == setting_str \notin ANY_VAR_SETTING

Exit == [ok |-> FALSE]

\* _exit: sys.exit() is called without an argument, and the process ends
\* with the status 0
sys_exit == 0

\* the exit status of the process after a run that ended as exit: main
\* returned, _exit ended the run after an error was handled, or an exception
\* nothing handles ended it
exit_status(exit) ==
    IF exit = "" THEN 0
    ELSE IF exit \in {"InputError", "InvalidVariableRegex"} THEN sys_exit
    ELSE 1

\* _parse_and_check_input with the option of the command line kept in a
\* discovery run that names one
parse_and_check_input_keeps_optn(a) ==
    LET renaming == a.rename_optn # <<>> \/ a.rename_setting # ""
        available == IF renaming THEN a.available
                     ELSE a.available
                          \/ (a.setting = "" /\ ~a.showfiles)
        o == check_optn_fmt(a.option)
        InputDb(tag, raw_opt, av, sf) ==
            [ok |-> TRUE, tag |-> tag, raw_opt |-> raw_opt,
             setting |-> a.setting, f_available |-> av, f_showfiles |-> sf,
             f_bashcomp |-> a.bashcomp, rename_optn |-> a.rename_optn,
             rename_setting |-> a.rename_setting]
    IN IF renaming /\ (a.available \/ a.showfiles
                       \/ (a.rename_setting # "" /\ a.setting = ""))
       THEN Exit
       ELSE IF (available \/ a.showfiles) /\ ~o.ok
       THEN InputDb(ANY_TAG, ANY_RAW_OPTN, available, a.showfiles)
       ELSE IF a.rename_optn # <<>> /\ a.rename_setting = ""
               /\ ~check_optn_fmt(a.rename_optn).ok
       THEN Exit
       ELSE IF a.setting # "" /\ ~check_setting_fmt(a.setting) THEN Exit
       ELSE IF ~o.ok THEN Exit
       ELSE InputDb(o.tag, o.raw_opt, available, a.showfiles)

\* _parse_and_check_input
parse_and_check_input(a) ==
    LET renaming == a.rename_optn # <<>> \/ a.rename_setting # ""
        available == IF renaming THEN a.available
                     ELSE a.available
                          \/ (a.setting = "" /\ ~a.showfiles)
        o == check_optn_fmt(a.option)
        InputDb(tag, raw_opt, av, sf) ==
            [ok |-> TRUE, tag |-> tag, raw_opt |-> raw_opt,
             setting |-> a.setting, f_available |-> av, f_showfiles |-> sf,
             f_bashcomp |-> a.bashcomp, rename_optn |-> a.rename_optn,
             rename_setting |-> a.rename_setting]
    IN IF renaming /\ (a.available \/ a.showfiles
                       \/ (a.rename_setting # "" /\ a.setting = ""))
       THEN Exit
       ELSE IF available \/ a.showfiles
       THEN InputDb(ANY_TAG, ANY_RAW_OPTN, available, a.showfiles)
       ELSE IF a.rename_optn # <<>> /\ a.rename_setting = ""
               /\ ~check_optn_fmt(a.rename_optn).ok
       THEN Exit
       ELSE IF a.setting # "" /\ ~check_setting_fmt(a.setting) THEN Exit
       ELSE IF ~o.ok THEN Exit
       ELSE InputDb(o.tag, o.raw_opt, FALSE, FALSE)

----------------------------------------------------------------------------
(* The run driver *)

NoFdb == FileVarsDatabase(None)
NoInp == [ok |-> FALSE]
GENERIC_RE_VARS == [com_ind |-> ANY_IND, nested_lvl |-> 0]

\* the record a finished run leaves in the history
RunRecord(in, exit, after, osdb, vardb, showdb) ==
    [args |-> args, inp |-> in, exit |-> exit, before |-> before,
     after |-> after, written |-> written, optns_settings_db |-> osdb,
     var_optns_values_db |-> vardb, show_files_db |-> showdb]

\* optionset(): parse and check the command line, list the valid files, and
\* start _scroll_through_files with empty databases.  An input error ends
\* the run before any file is opened.
Started(a, in) ==
    /\ args' = IF in.ok THEN [a EXCEPT !.available = in.f_available] ELSE a
    /\ IF in.ok
       THEN /\ inp' = in
            /\ pc' = "file"
            /\ runs' = runs
       ELSE /\ inp' = NoInp
            /\ pc' = "idle"
            /\ runs' = Append(runs, [args |-> a, inp |-> NoInp,
                                     exit |-> "InputError",
                                     before |-> disk, after |-> disk,
                                     written |-> {},
                                     optns_settings_db |-> <<>>,
                                     var_optns_values_db |-> {},
                                     show_files_db |-> {}])

StartRun ==
    /\ pc = "idle"
    /\ plan # <<>>
    /\ Started(Head(plan), parse_and_check_input(Head(plan)))
    /\ plan' = Tail(plan)
    /\ before' = disk
    /\ written' = {}
    /\ optns_settings_db' = <<>>
    /\ var_optns_values_db' = {}
    /\ show_files_db' = {}
    /\ re_vars' = GENERIC_RE_VARS
    /\ fdb' = NoFdb
    /\ newlines' = <<>>
    /\ pre' = <<>>
    /\ fidx' = 1
    /\ UNCHANGED disk

\* lines 1126-1132 with the file variables of the file before kept
Opened_keeps_file_variables(com_ind) ==
    /\ re_vars' = [re_vars EXCEPT !.com_ind = com_ind]
    /\ fdb' = [fdb EXCEPT !.com_ind = com_ind]
    /\ IF com_ind = None
       THEN pc' = "file" /\ fidx' = fidx + 1
       ELSE pc' = "line" /\ fidx' = fidx

\* _process_file, lines 1126-1132: the file variables are initialised with
\* the comment indicator of the file; a file without one is passed over
Opened(com_ind) ==
    /\ re_vars' = [re_vars EXCEPT !.com_ind = com_ind]
    /\ fdb' = FileVarsDatabase(com_ind)
    /\ IF com_ind = None
       THEN pc' = "file" /\ fidx' = fidx + 1
       ELSE pc' = "line" /\ fidx' = fidx

\* bytes that are not UTF-8
BAD == [k |-> "bad"]

\* the first line of the file at or after line i that holds such bytes, 0 if
\* there is none
RECURSIVE FirstUndecodable(_, _)
FirstUndecodable(file, i) ==
    IF i > Len(file) THEN 0
    ELSE IF \E j \in 1..Len(file[i]) : file[i][j] = BAD THEN i
    ELSE FirstUndecodable(file, i + 1)

\* the lines the text stream decodes at a time (its buffer)
BufferLines == 2

\* _yield_utf8: the lines of the file up to the UnicodeDecodeError, which
\* ends the generator.  The stream decodes a buffer at a time, so the error
\* is raised when the buffer with the bytes is decoded, and the lines of the
\* buffers before it have been yielded
yield_utf8(file) ==
    LET b == FirstUndecodable(file, 1)
    IN IF b = 0 THEN file
       ELSE SubSeq(file, 1, BufferLines * ((b - 1) \div BufferLines))

OpenFile ==
    /\ pc = "file"
    /\ fidx <= Len(disk)
    /\ Opened(get_comment_indicator(yield_utf8(disk[fidx]), re_vars))
    /\ newlines' = <<>>
    /\ pre' = <<>>
    /\ UNCHANGED <<disk, plan, args, inp, optns_settings_db, var_optns_values_db,
                   show_files_db, before, written, runs>>

\* lines 931-934: the files an option occurs in
ShowFiles(db, matches, f) ==
    db \cup {<<matches[i].optn, f>> : i \in 1..Len(matches)}

\* lines 1137-1141 with the files put back as they were when the run is
\* aborted
Processed_rolls_back(r, showdb) ==
    /\ show_files_db' = showdb
    /\ IF r.err = ""
       THEN /\ newlines' = Append(newlines, r.newline)
            /\ fdb' = r.fdb
            /\ optns_settings_db' = r.osdb
            /\ var_optns_values_db' = r.vardb
            /\ pc' = "line"
            /\ runs' = runs
       ELSE /\ pc' = "idle"
            /\ runs' = Append(runs, RunRecord(inp, r.err, before,
                                              optns_settings_db,
                                              var_optns_values_db, showdb))
            /\ UNCHANGED <<newlines, fdb, optns_settings_db,
                           var_optns_values_db>>

\* _process_file, lines 1137-1141: one line of the file goes through
\* _process_line; an invalid variable regex ends the run there
Processed(r, showdb) ==
    /\ show_files_db' = showdb
    /\ IF r.err = ""
       THEN /\ newlines' = Append(newlines, r.newline)
            /\ fdb' = r.fdb
            /\ optns_settings_db' = r.osdb
            /\ var_optns_values_db' = r.vardb
            /\ pc' = "line"
            /\ runs' = runs
       ELSE /\ pc' = "idle"
            /\ runs' = Append(runs, RunRecord(inp, r.err, disk,
                                              optns_settings_db,
                                              var_optns_values_db, showdb))
            /\ UNCHANGED <<newlines, fdb, optns_settings_db,
                           var_optns_values_db>>

ReadLine(line, lvl) ==
    /\ re_vars' = [re_vars EXCEPT !.nested_lvl = lvl]
    /\ pre' = Append(pre, fdb)
    /\ Processed(process_line(line, fdb, inp, optns_settings_db,
                              var_optns_values_db),
                 IF inp.f_showfiles
                 THEN ShowFiles(show_files_db,
                                Classify(line, fdb.com_ind,
                                         lvl).tag_optn_setting_matches,
                                fidx)
                 ELSE show_files_db)

ProcessLine ==
    /\ pc = "line"
    /\ Len(newlines) < Len(yield_utf8(disk[fidx]))
    /\ ReadLine(yield_utf8(disk[fidx])[Len(newlines) + 1],
                fdb.nested_lvl + fdb.nested_increment)
    /\ UNCHANGED <<disk, plan, args, inp, fidx, before, written>>

\* _process_file, lines 1143-1150: the file is written back if it is
\* flagged as modified
CloseFile ==
    /\ pc = "line"
    /\ Len(newlines) = Len(yield_utf8(disk[fidx]))
    /\ IF fdb.f_filemodified
       THEN /\ disk' = [disk EXCEPT ![fidx] = newlines]
            /\ written' = written \cup {fidx}
       ELSE UNCHANGED <<disk, written>>
    /\ fidx' = fidx + 1
    /\ pc' = "file"
    /\ UNCHANGED <<plan, args, inp, fdb, newlines, optns_settings_db,
                   var_optns_values_db, show_files_db, re_vars, before, pre,
                   runs>>

\* the settings recorded for an option
SettingsOf(db, optn) == {k \in DOMAIN db : k[1] = optn}

\* lines 1190-1192 with every option kept
CutSingular_keeps_all(db) == db

\* _scroll_through_files, lines 1190-1192: options with a single setting
\* are cut out
CutSingular(db) ==
    LET keep == {k \in DOMAIN db : Cardinality(SettingsOf(db, k[1])) > 1}
    IN [k \in keep |-> db[k]]

\* _print_available with the marks of an active setting for every state
print_setting_as_active(value, setting) == <<">", setting, "<">>

\* _print_available, lines 613-625: the row of a setting, its name between
\* the marks of its state
print_setting(value, setting) ==
    IF value = "True" THEN <<">", setting, "<">>
    ELSE IF value = "False" THEN <<" ", setting, " ">>
    ELSE IF value = "None" THEN <<" ", setting, " ">>
    ELSE <<value, setting, value>>

\* _scroll_through_files returns and optionset() reports
EndRun ==
    /\ pc = "file"
    /\ fidx > Len(disk)
    /\ pc' = "idle"
    /\ optns_settings_db' = CutSingular(optns_settings_db)
    /\ runs' = Append(runs, RunRecord(inp, "", disk,
                                      CutSingular(optns_settings_db),
                                      var_optns_values_db, show_files_db))
    /\ UNCHANGED <<disk, plan, args, inp, fidx, fdb, newlines, var_optns_values_db,
                   show_files_db, re_vars, before, written, pre>>

Next == StartRun \/ OpenFile \/ ProcessLine \/ CloseFile \/ EndRun

\* the state before the first command line: the files on disk and the
\* command lines to run
InitWith(Disks, Plans) ==
    /\ disk \in Disks
    /\ plan \in Plans
    /\ pc = "idle"
    /\ args = NoInp
    /\ inp = NoInp
    /\ fidx = 1
    /\ fdb = NoFdb
    /\ newlines = <<>>
    /\ optns_settings_db = <<>>
    /\ var_optns_values_db = {}
    /\ show_files_db = {}
    /\ re_vars = GENERIC_RE_VARS
    /\ before = disk
    /\ written = {}
    /\ pre = <<>>
    /\ runs = <<>>

\* calls of the line mutators in a row
MaxToggles == 2

\* the line the next call of a line mutator is given: the line of the file, or
\* the result of the call before
CurrentLine == IF newlines = <<>> THEN disk[1][1] ELSE newlines[Len(newlines)]

\* one call of _comment on the current line, with the indicator of the file
CommentLine ==
    /\ pc = "toggle"
    /\ Len(newlines) < MaxToggles
    /\ newlines' = Append(newlines, comment(CurrentLine, fdb.com_ind))
    /\ pre' = Append(pre, "comment")
    /\ UNCHANGED <<disk, plan, pc, args, inp, fidx, fdb, optns_settings_db,
                   var_optns_values_db, show_files_db, re_vars, before,
                   written, runs>>

\* one call of _uncomment on the current line, with the indicator of the file
UncommentLine ==
    /\ pc = "toggle"
    /\ Len(newlines) < MaxToggles
    /\ newlines' = Append(newlines, uncomment(CurrentLine, fdb.com_ind))
    /\ pre' = Append(pre, "uncomment")
    /\ UNCHANGED <<disk, plan, pc, args, inp, fidx, fdb, optns_settings_db,
                   var_optns_values_db, show_files_db, re_vars, before,
                   written, runs>>

NextToggle == CommentLine \/ UncommentLine

\* a line and an indicator, before any call of a line mutator
InitToggle(Lines, Indicators) ==
    /\ disk \in {<<<<l>>>> : l \in Lines}
    /\ plan = <<>>
    /\ pc = "toggle"
    /\ args = NoInp
    /\ inp = NoInp
    /\ fidx = 1
    /\ fdb \in {FileVarsDatabase(c) : c \in Indicators}
    /\ newlines = <<>>
    /\ optns_settings_db = <<>>
    /\ var_optns_values_db = {}
    /\ show_files_db = {}
    /\ re_vars = GENERIC_RE_VARS
    /\ before = disk
    /\ written = {}
    /\ pre = <<>>
    /\ runs = <<>>

\* the observing line plan[i] is processed next: lines 1016-1024 for its
\* annotation, which names its option once
ObserveLine ==
    /\ pc = "merge"
    /\ \E i \in 1..Len(plan) :
          /\ optns_settings_db' = Observe(optns_settings_db, plan[i].key,
                                          plan[i].f_comment, 1)
          /\ pre' = Append(pre, plan[i])
          /\ plan' = RemoveAt(plan, i)
    /\ UNCHANGED <<disk, pc, args, inp, fidx, fdb, newlines,
                   var_optns_values_db, show_files_db, re_vars, before,
                   written, runs>>

NextMerge == ObserveLine

\* the observing line plan[i] is processed next: lines 1016-1024 for one of
\* its annotations, the line naming the option plan[i].count times
ObserveCounted ==
    /\ pc = "merge"
    /\ \E i \in 1..Len(plan) :
          /\ optns_settings_db' = Observe(optns_settings_db, plan[i].key,
                                          plan[i].f_comment, plan[i].count)
          /\ pre' = Append(pre, plan[i])
          /\ plan' = RemoveAt(plan, i)
    /\ UNCHANGED <<disk, pc, args, inp, fidx, fdb, newlines,
                   var_optns_values_db, show_files_db, re_vars, before,
                   written, runs>>

NextBoth == ObserveCounted

\* the observations the lines and files of a discovery run will make, none
\* of them made yet
InitMerge(Observing) ==
    /\ disk = <<>>
    /\ plan \in Observing
    /\ pc = "merge"
    /\ args = NoInp
    /\ inp = NoInp
    /\ fidx = 1
    /\ fdb = NoFdb
    /\ newlines = <<>>
    /\ optns_settings_db = <<>>
    /\ var_optns_values_db = {}
    /\ show_files_db = {}
    /\ re_vars = GENERIC_RE_VARS
    /\ before = plan
    /\ written = {}
    /\ pre = <<>>
    /\ runs = <<>>

\* _process_file, lines 1112-1124, with a file of the size of the limit
\* skipped
size_gate_skips_at_limit(st_size, linecount, max_fsize_kb, max_flines) ==
    IF st_size >= 1000 * max_fsize_kb THEN "size"
    ELSE IF linecount > max_flines THEN "lines"
    ELSE "pass"

\* _process_file, lines 1112-1124: a file is skipped if st_size/1000 exceeds
\* max_fsize_kb, or if it has more lines than max_flines; else it is handed
\* on
size_gate(st_size, linecount, max_fsize_kb, max_flines) ==
    IF st_size > 1000 * max_fsize_kb THEN "size"
    ELSE IF linecount > max_flines THEN "lines"
    ELSE "pass"

\* the size and the line count of the file disk[1] are checked against the
\* limits of the configuration
CheckSize ==
    /\ pc = "gate"
    /\ pre' = <<size_gate(disk[1].st_size, disk[1].linecount,
                          inp.max_fsize_kb, inp.max_flines)>>
    /\ pc' = "gated"
    /\ UNCHANGED <<disk, plan, args, inp, fidx, fdb, newlines,
                   optns_settings_db, var_optns_values_db, show_files_db,
                   re_vars, before, written, runs>>

NextGate == CheckSize

\* a file of some size and line count, and the limits of a configuration
InitGate(Stats, Limits) ==
    /\ disk \in {<<st>> : st \in Stats}
    /\ plan = <<>>
    /\ pc = "gate"
    /\ args = NoInp
    /\ inp \in Limits
    /\ fidx = 1
    /\ fdb = NoFdb
    /\ newlines = <<>>
    /\ optns_settings_db = <<>>
    /\ var_optns_values_db = {}
    /\ show_files_db = {}
    /\ re_vars = GENERIC_RE_VARS
    /\ before = disk
    /\ written = {}
    /\ pre = <<>>
    /\ runs = <<>>

----------------------------------------------------------------------------
(* The files and command lines the model is run on *)

O == <<"@", "o">>
P == <<"@", "p">>
N == <<"@", "n">>
Q == <<"@", "q">>
Forces == <<"@", "f", "o", "r", "c", "e", "s">>

\* a command line; the flags not named are off
Args(option, setting) ==
    [option |-> option, setting |-> setting, available |-> FALSE,
     showfiles |-> FALSE, bashcomp |-> FALSE, rename_optn |-> <<>>,
     rename_setting |-> ""]

\* n leading indicators c
RECURSIVE Lead(_, _)
Lead(c, n) == IF n = 0 THEN <<>> ELSE <<Ind(c)>> \o Lead(c, n - 1)

\* a line of code under n leading indicators, with the annotations anns
\* (if any) in a trailing comment
Line(c, n, code, anns) ==
    Lead(c, n) \o code \o (IF anns = <<>> THEN <<>> ELSE <<Ind(c)>> \o anns)

\* all sequences over S of length lo..hi
SeqsOf(S, lo, hi) == UNION {[1..n -> S] : n \in lo..hi}

\* Bounds
MaxLines == 3

\* annotations of the lines of Spec: the settings a and b of option @o, with
\* and without the multi-line marker
AnnsGen ==
    {<<>>, <<Ann(FALSE, O, "a")>>, <<Ann(FALSE, O, "b")>>,
     <<Ann(TRUE, O, "a")>>}

\* the lines of Spec: code with each of the annotations, commented and not,
\* the marker of a scope of a second option, the same option twice on a
\* line, an annotated line that is not recognized, and variable settings
\* that are valid or have no group
LinesGen ==
    {Line("#", n, <<TXT>>, anns) : n \in 0..1, anns \in AnnsGen}
    \cup {Line("#", 0, <<TXT>>, <<Ann(TRUE, P, "a")>>),
          Line("#", 0, <<TXT>>, <<Ann(FALSE, O, "a"), Ann(FALSE, O, "b")>>),
          <<Ind("#"), Ind("#"), TXT, Ind("#"), Ann(FALSE, O, "a")>>,
          <<Val("a"), Ind("#"), Ann(FALSE, O, VarRe1)>>,
          <<Val("a"), Ind("#"), Ann(FALSE, P, VarRe0)>>}

DisksGen == {<<f>> : f \in SeqsOf(LinesGen, 1, MaxLines)}

ArgsGen ==
    {[Args(<<>>, "") EXCEPT !.available = TRUE],
     Args(O, ""),
     [Args(O, "a") EXCEPT !.showfiles = TRUE],
     Args(O, "a"), Args(O, "b"), Args(O, "c"), Args(P, "a"),
     [Args(O, "a") EXCEPT !.bashcomp = TRUE],
     [Args(O, "") EXCEPT !.rename_optn = N],
     [Args(O, "a") EXCEPT !.rename_setting = "c"],
     [Args(O, "a") EXCEPT !.rename_setting = "c", !.available = TRUE],
     Args(<<"o">>, "a"), Args(O, VarRe1)}

PlansGen == {<<a>> : a \in ArgsGen}

\* one command line of any mode over one file
Spec == InitWith(DisksGen, PlansGen) /\ [][Next]_vars

MaxAvailLines == 3

DisksAvail == {<<f>> : f \in SeqsOf(LinesGen, 1, MaxAvailLines)}

\* the availability of all options or of @o, and the files of @o a
PlansAvail ==
    {<<a>> : a \in {[Args(<<>>, "") EXCEPT !.available = TRUE],
                    [Args(O, "") EXCEPT !.available = TRUE],
                    [Args(O, "a") EXCEPT !.showfiles = TRUE]}}

\* one discovery run over one file
SpecAvail == InitWith(DisksAvail, PlansAvail) /\ [][Next]_vars

MaxRunLines == 3

\* lines of the files of SpecRuns: the settings a and b of @o commented and
\* uncommented, an indented commented line, a line commented twice, the
\* markers of a scope, both settings on one line, a variable setting, and
\* lines of a file that comments with //
LinesRuns ==
    {Line("#", n, <<TXT>>, <<Ann(FALSE, O, st)>>) : n \in 0..1, st \in {"a", "b"}}
    \cup {Line("#", n, <<TXT>>, <<Ann(TRUE, O, "a")>>) : n \in 0..1}
    \cup {Line("//", 1, <<TXT>>, <<Ann(FALSE, O, st)>>) : st \in {"a", "b"}}
    \cup {<<WS, Ind("#"), TXT, Ind("#"), Ann(FALSE, O, "b")>>,
          <<Ind("#"), WS, Ind("#"), TXT, Ind("#"), Ann(FALSE, O, "a")>>,
          <<TXT, Ind("#"), Ann(FALSE, O, "a"), Ann(FALSE, O, "b")>>,
          <<Val("a"), Ind("#"), Ann(FALSE, O, VarRe1)>>}

\* one file of up to MaxRunLines lines, or two files of one line
DisksRuns ==
    {<<f>> : f \in SeqsOf(LinesRuns, 1, MaxRunLines)}
    \cup {<<<<l1>>, <<l2>>>> : l1 \in LinesRuns, l2 \in LinesRuns}

\* the same request twice, a request and then the availability of all
\* options or of @o, and a request, another and the first again
PlansRuns ==
    {<<Args(O, st), Args(O, st)>> : st \in {"a", "b", "c"}}
    \cup {<<Args(O, st), [Args(<<>>, "") EXCEPT !.available = TRUE]>> :
             st \in {"a", "b", "c"}}
    \cup {<<Args(O, st), [Args(O, "") EXCEPT !.available = TRUE]>> :
             st \in {"a", "b"}}
    \cup {<<Args(O, "a"), Args(O, "b"), Args(O, "a")>>,
          <<Args(O, "b"), Args(O, "a"), Args(O, "b")>>}

\* several command lines one after another
SpecRuns == InitWith(DisksRuns, PlansRuns) /\ [][Next]_vars

MaxInterior == 2

\* the lines between the markers of an uncommented scope of @o: code, code
\* in a comment of the file or in a foreign comment, and lines annotated
\* with @p
InteriorLines ==
    {<<TXT>>, <<WS, TXT>>, <<Ind("#"), TXT>>, <<Ind("//"), TXT>>,
     Line("#", 0, <<TXT>>, <<Ann(FALSE, P, "a")>>),
     Line("#", 1, <<TXT>>, <<Ann(FALSE, P, "b")>>),
     Line("#", 0, <<TXT>>, <<Ann(TRUE, P, "a")>>)}

\* the lines that follow the scope
AfterLines ==
    {<<TXT>>, <<Ind("#"), TXT>>, Line("#", 0, <<TXT>>, <<Ann(FALSE, P, "a")>>),
     Line("#", 1, <<TXT>>, <<Ann(FALSE, O, "b")>>)}

\* an uncommented scope of @o a, and at most one line after it
ScopeFiles ==
    {<<Line("#", 0, <<TXT>>, <<Ann(TRUE, O, "a")>>)>> \o in
       \o <<Line("#", 0, <<TXT>>, <<Ann(TRUE, O, "a")>>)>> \o af :
       in \in SeqsOf(InteriorLines, 0, MaxInterior),
       af \in SeqsOf(AfterLines, 0, 1)}

\* the lines inside commented scopes at level lvl: lines annotated with @p
\* that are uncommented, commented and commented twice at that level, and
\* code
NestedLines(lvl) ==
    {Line("#", lvl + n, <<TXT>>, <<Ann(FALSE, P, st)>>) :
        n \in 0..1, st \in {"a", "b"}}
    \cup {Lead("#", lvl + 1) \o <<WS, Ind("#"), TXT, Ind("#"),
                                  Ann(FALSE, P, "a")>>,
          Lead("#", lvl) \o <<WS, TXT, Ind("#"), Ann(FALSE, P, "b")>>,
          Lead("#", lvl) \o <<TXT>>}

\* lines annotated with @p inside a commented scope of @q, or inside a
\* commented scope of @n inside a commented scope of @q
NestedFiles ==
    {<<Line("#", 1, <<TXT>>, <<Ann(TRUE, Q, "a")>>)>> \o in
       \o <<Line("#", 1, <<TXT>>, <<Ann(TRUE, Q, "a")>>)>> :
       in \in SeqsOf(NestedLines(1), 1, MaxInterior)}
    \cup
    {<<Line("#", 1, <<TXT>>, <<Ann(TRUE, Q, "a")>>),
       Line("#", 2, <<TXT>>, <<Ann(TRUE, N, "a")>>)>> \o in
       \o <<Line("#", 2, <<TXT>>, <<Ann(TRUE, N, "a")>>),
            Line("#", 1, <<TXT>>, <<Ann(TRUE, Q, "a")>>)>> :
       in \in SeqsOf(NestedLines(2), 1, MaxInterior)}

\* the file of the third scenario: 'functions // *@forces on', '{',
\* '#include "forces"', '} // *@forces on', '// // @forces off'
ForcesFile ==
    <<<<TXT, WS, Ind("//"), Ann(TRUE, Forces, "on")>>,
      <<TXT>>,
      <<Ind("#"), TXT>>,
      <<TXT, WS, Ind("//"), Ann(TRUE, Forces, "on")>>,
      <<Ind("//"), WS, Ind("//"), Ann(FALSE, Forces, "off")>>>>

\* the same file with a third line that does not start with #
ForcesFileNoHash == [ForcesFile EXCEPT ![3] = <<TXT>>]

DisksScopes ==
    {<<f>> : f \in ScopeFiles \cup NestedFiles
                      \cup {ForcesFile, ForcesFileNoHash}}

PlansScopes ==
    {<<a>> : a \in {Args(O, "a"), Args(O, "b"), Args(P, "a"), Args(P, "b"),
                    Args(P, "c"), Args(Q, "a"), Args(Q, "b"),
                    Args(Forces, "off"), Args(Forces, "on"),
                    [Args(<<>>, "") EXCEPT !.available = TRUE]}}

\* one command line over a file with scopes
SpecScopes == InitWith(DisksScopes, PlansScopes) /\ [][Next]_vars

MaxRenameLines == 2

\* the lines of the files of SpecRename: code without annotation, and the
\* settings a and b of @o, commented and not, alone or after @p a
LinesRename ==
    {<<TXT>>}
    \cup {Line("#", n, <<TXT>>, <<Ann(FALSE, O, st)>>) :
             n \in 0..1, st \in {"a", "b"}}
    \cup {Line("#", 0, <<TXT>>, <<Ann(FALSE, P, "a"), Ann(TRUE, O, "a")>>)}

DisksRename == {<<f>> : f \in SeqsOf(LinesRename, 1, MaxRenameLines)}

\* an option or a setting renamed to a new name or to its own name, both
\* renamed at once, and an apply and a discovery run
PlansRename ==
    {<<a>> : a \in {[Args(O, "") EXCEPT !.rename_optn = N],
                    [Args(O, "") EXCEPT !.rename_optn = O],
                    [Args(O, "a") EXCEPT !.rename_setting = "c"],
                    [Args(O, "a") EXCEPT !.rename_setting = "a"],
                    [Args(O, "a") EXCEPT !.rename_optn = N,
                                         !.rename_setting = "c"],
                    Args(O, "a"),
                    [Args(<<>>, "") EXCEPT !.available = TRUE]}}

\* one command line, of a rename run mostly
SpecRename == InitWith(DisksRename, PlansRename) /\ [][Next]_vars

MaxToggleLen == 3

\* the indicators of SpecToggle: three of the five of ANY_COMMENT_IND
IndsToggle == {"#", "//", "--"}

\* the lines of SpecToggle: every sequence of whitespace, text and indicators
LinesToggle ==
    SeqsOf({WS, TXT} \cup {Ind(c) : c \in IndsToggle}, 0, MaxToggleLen)

\* the line mutators called one after another on one line
SpecToggle == InitToggle(LinesToggle, IndsToggle) /\ [][NextToggle]_vars

MaxVarLines == 2

\* the lines of the files of SpecVars: a variable setting of @o on a line
\* that holds the value a or b, on a commented line, on a line with two
\* values, before and after an annotation of @p, before an ordinary setting
\* of @o, as a multi-line marker, on a line its regex does not match, with a
\* regex of two groups, after the closing marker of a commented scope of @q,
\* and an ordinary line of @p
LinesVars ==
    {<<Val(v), Ind("#"), Ann(FALSE, O, VarRe1)>> : v \in {"a", "b"}}
    \cup {<<Ind("#"), Val("a"), Ind("#"), Ann(FALSE, O, VarRe1)>>,
          <<Val("a"), TXT, Val("b"), Ind("#"), Ann(FALSE, O, VarRe1)>>,
          <<Val("a"), Ind("#"), Ann(FALSE, O, VarRe1), Ann(FALSE, P, "a")>>,
          <<Val("a"), Ind("#"), Ann(FALSE, P, "a"), Ann(FALSE, O, VarRe1)>>,
          <<Val("a"), Ind("#"), Ann(FALSE, O, VarRe1), Ann(FALSE, O, "b")>>,
          <<Val("a"), Ind("#"), Ann(TRUE, O, VarRe1)>>,
          <<TXT, Ind("#"), Ann(FALSE, O, VarRe1)>>,
          <<Val("a"), Ind("#"), Ann(FALSE, O, VarRe2)>>,
          <<Ind("#"), TXT, Ind("#"), Ann(TRUE, Q, "a")>>,
          <<Ind("#"), Val("a"), Ind("#"), Ann(TRUE, Q, "a"), Ann(FALSE, O, VarRe1)>>,
          <<TXT, Ind("#"), Ann(FALSE, P, "a")>>}

DisksVars == {<<f>> : f \in SeqsOf(LinesVars, 1, MaxVarLines)}

\* a value is requested for @o, or the setting a for @p, and then the
\* availability of all options
PlansVars ==
    {<<Args(O, v), [Args(<<>>, "") EXCEPT !.available = TRUE]>> :
        v \in {"a", "b", "c"}}
    \cup {<<Args(P, "a"), [Args(<<>>, "") EXCEPT !.available = TRUE]>>}

\* a request and then the availability, over a file of variable settings
SpecVars == InitWith(DisksVars, PlansVars) /\ [][Next]_vars

MaxObservations == 4

\* the observations of SpecMerge: the settings a and b of @o and the setting
\* a of @p, seen on a commented or an uncommented line
ObservationsMerge ==
    [key : {<<O, "a">>, <<O, "b">>, <<P, "a">>}, f_comment : BOOLEAN]

\* the observations of a discovery run, processed in any order
SpecMerge ==
    InitMerge(SeqsOf(ObservationsMerge, 0, MaxObservations)) /\ [][NextMerge]_vars

MaxNestLines == 4

\* the lines of the files of SpecNest: markers of @q under zero to two
\* indicators and of @o under zero or one, both markers on one line, and a
\* commented line of @o b
LinesNest ==
    {Line("#", n, <<TXT>>, <<Ann(TRUE, Q, "a")>>) : n \in 0..2}
    \cup {Line("#", n, <<TXT>>, <<Ann(TRUE, O, "a")>>) : n \in 0..1}
    \cup {Line("#", 1, <<TXT>>, <<Ann(TRUE, O, "a"), Ann(TRUE, Q, "a")>>)}
    \cup {Line("#", 1, <<TXT>>, <<Ann(FALSE, O, "b")>>)}

\* the markers in any order, paired or not
DisksNest == {<<f>> : f \in SeqsOf(LinesNest, 1, MaxNestLines)}

PlansNest ==
    {<<a>> : a \in {[Args(<<>>, "") EXCEPT !.available = TRUE],
                    Args(O, "a"), Args(O, "b"), Args(Q, "a"),
                    [Args(O, "") EXCEPT !.rename_optn = N]}}

\* one command line over a file of markers
SpecNest == InitWith(DisksNest, PlansNest) /\ [][Next]_vars

MaxInputLines == 2

\* option strings of a command line: valid ones, with and without the
\* multi-line marker, and invalid ones (no tag, no name, a tag after the
\* name, a newline after the name)
OptionsInput ==
    {O, <<"*">> \o O, <<"o">>, <<"@">>, O \o <<"@">>, O \o <<NL>>}

DisksInput == {<<f>> : f \in SeqsOf(LinesGen, 1, MaxInputLines)}

\* an option and a setting to apply, and rename runs with a new option name
\* that is valid or has no tag, with and without a new setting name and a
\* setting to rename
PlansInput ==
    {<<Args(o, s)>> : o \in OptionsInput, s \in {"a", "b", VarRe1}}
    \cup {<<[Args(O, s) EXCEPT !.rename_optn = ro, !.rename_setting = rs]>> :
             s \in {"", "a"}, ro \in {<<>>, N, <<"n">>}, rs \in {"", "c"}}

\* one command line with an option and a setting, valid or not, over one
\* file
SpecInput == InitWith(DisksInput, PlansInput) /\ [][Next]_vars

MaxAbortLines == 2

\* the lines of the first file of SpecAbort: a value under a variable
\* setting of @o with no, one, two and two adjacent capture groups, text the
\* regex does not match, a variable setting without group of @p, on a
\* commented line, and after the closing marker of a scope of @q, and
\* ordinary lines of @o
LinesAbort ==
    {<<Val("a"), Ind("#"), Ann(FALSE, O, r)>> : r \in ANY_VAR_SETTING}
    \cup {<<TXT, Ind("#"), Ann(FALSE, O, VarRe1)>>,
          <<Val("a"), Ind("#"), Ann(FALSE, P, VarRe0)>>,
          <<Ind("#"), Val("a"), Ind("#"), Ann(FALSE, O, VarRe0)>>,
          <<Ind("#"), TXT, Ind("#"), Ann(TRUE, Q, "a")>>,
          <<Ind("#"), Val("a"), Ind("#"), Ann(TRUE, Q, "a"),
            Ann(FALSE, O, VarRe0)>>,
          Line("#", 0, <<TXT>>, <<Ann(FALSE, O, "a")>>),
          Line("#", 1, <<TXT>>, <<Ann(FALSE, O, "c")>>)}

\* a file every apply run of SpecAbort rewrites
LaterFile ==
    <<Line("#", 0, <<TXT>>, <<Ann(FALSE, O, "b")>>),
      Line("#", 1, <<TXT>>, <<Ann(FALSE, O, "a")>>),
      Line("#", 1, <<TXT>>, <<Ann(FALSE, O, "c")>>)>>

DisksAbort ==
    {<<f>> : f \in SeqsOf(LinesAbort, 1, MaxAbortLines)}
    \cup {<<f, LaterFile>> : f \in SeqsOf(LinesAbort, 1, MaxAbortLines)}

PlansAbort ==
    {<<a>> : a \in {Args(O, "a"), Args(O, "c"),
                    [Args(<<>>, "") EXCEPT !.available = TRUE]}}

\* one command line over a file with variable settings and, in half of the
\* cases, a file after it
SpecAbort == InitWith(DisksAbort, PlansAbort) /\ [][Next]_vars

MaxDecodeLines == 3

\* the lines of the first file of SpecDecode: ordinary lines of @o, and a
\* line with bytes that are not UTF-8
LinesDecode ==
    {Line("#", 0, <<TXT>>, <<Ann(FALSE, O, "a")>>),
     Line("#", 1, <<TXT>>, <<Ann(FALSE, O, "c")>>),
     <<TXT, BAD>>}

DisksDecode ==
    {<<f>> : f \in SeqsOf(LinesDecode, 1, MaxDecodeLines)}
    \cup {<<f, LaterFile>> : f \in SeqsOf(LinesDecode, 1, MaxDecodeLines)}

\* one command line over a file that may hold bytes that are not UTF-8 and,
\* in half of the cases, a file after it
SpecDecode == InitWith(DisksDecode, PlansAbort) /\ [][Next]_vars

MaxKb == 2
MaxDelta == 8
MaxFlines == 2

\* files of a size within MaxDelta bytes of a multiple of 1000 or of 1024
\* bytes, with up to one line more than the limit
StatsGate ==
    {[st_size |-> u * k + d, linecount |-> n] :
        u \in {1000, 1024}, k \in 1..MaxKb, d \in (0 - MaxDelta)..MaxDelta,
        n \in 1..(MaxFlines + 1)}

LimitsGate ==
    {[ok |-> TRUE, max_fsize_kb |-> k, max_flines |-> MaxFlines] :
        k \in 1..MaxKb}

\* the check of the size and line count of one file
SpecGate == InitGate(StatsGate, LimitsGate) /\ [][NextGate]_vars

MaxTripLines == 2

\* the lines of the files of SpecTrip: code without annotation, the settings
\* a and 1 of @o, commented and not, a marker of @o after @p a, @o twice,
\* and @o on a line that holds the new name @n already
LinesTrip ==
    {<<TXT>>}
    \cup {Line("#", n, <<TXT>>, <<Ann(FALSE, O, st)>>) :
             n \in 0..1, st \in {"a", "1"}}
    \cup {Line("#", 0, <<TXT>>, <<Ann(FALSE, P, "a"), Ann(TRUE, O, "a")>>),
          Line("#", 0, <<TXT>>, <<Ann(FALSE, O, "a"), Ann(FALSE, O, "b")>>),
          Line("#", 0, <<TXT>>,
               <<Ann(FALSE, N, "a"), Ann(FALSE, P, "a"), Ann(FALSE, O, "a")>>)}

DisksTrip == {<<f>> : f \in SeqsOf(LinesTrip, 1, MaxTripLines)}

\* the command line that renames back what the command line a renames
Back(a) ==
    [a EXCEPT !.option = IF a.rename_optn # <<>> THEN a.rename_optn ELSE @,
              !.rename_optn = IF a.rename_optn # <<>> THEN a.option ELSE @,
              !.setting = IF a.rename_setting # "" THEN a.rename_setting
                          ELSE @,
              !.rename_setting = IF a.rename_setting # "" THEN a.setting
                                 ELSE @]

\* an option, a setting, or both renamed, and then renamed back
PlansTrip ==
    {<<a, Back(a)>> :
        a \in {[Args(O, "") EXCEPT !.rename_optn = N],
               [Args(O, "a") EXCEPT !.rename_setting = "c"],
               [Args(O, "1") EXCEPT !.rename_setting = "c"],
               [Args(O, "a") EXCEPT !.rename_setting = "1"],
               [Args(O, "a") EXCEPT !.rename_optn = N,
                                    !.rename_setting = "c"]}}

\* a rename run and the rename run that takes it back, over one file
SpecTrip == InitWith(DisksTrip, PlansTrip) /\ [][Next]_vars


MaxCloseLines == 4

\* the lines of the files of SpecClose: markers of @o with the settings a and
\* b and a marker of @p, each under one indicator, and a commented line of
\* code
LinesClose ==
    {Line("#", 1, <<TXT>>, <<Ann(TRUE, O, s)>>) : s \in {"a", "b"}}
    \cup {Line("#", 1, <<TXT>>, <<Ann(TRUE, P, "a")>>), <<Ind("#"), TXT>>}

DisksClose == {<<f>> : f \in SeqsOf(LinesClose, 1, MaxCloseLines)}

PlansClose ==
    {<<a>> : a \in {[Args(<<>>, "") EXCEPT !.available = TRUE],
                    Args(O, "a"), Args(O, "b")}}

\* one command line over a file of markers with different settings
SpecClose == InitWith(DisksClose, PlansClose) /\ [][Next]_vars


MaxLoopLines == 2

\* pairs of annotations of one line: markers of @o with the settings a and b
\* and a marker of @p, in any order, one of them twice as well
AnnsLoop ==
    {<<a, b>> : a, b \in {Ann(TRUE, O, "a"), Ann(TRUE, O, "b"),
                          Ann(TRUE, P, "a")}}

\* the lines of the files of SpecLoop: two annotations after code, the line
\* under no or one indicator
LinesLoop == {Line("#", n, <<TXT>>, anns) : n \in 0..1, anns \in AnnsLoop}

DisksLoop == {<<f>> : f \in SeqsOf(LinesLoop, 1, MaxLoopLines)}

PlansLoop ==
    {<<a>> : a \in {[Args(<<>>, "") EXCEPT !.available = TRUE],
                    Args(O, "a"), Args(O, "b")}}

\* one command line over a file of lines with two markers each
SpecLoop == InitWith(DisksLoop, PlansLoop) /\ [][Next]_vars


MaxWellInterior == 1

\* the marker lines of the files of SpecWell: the marker of @o a alone, or
\* with a marker of @p before or after it, under zero to two indicators
MarkerLines ==
    {Line("#", n, <<TXT>>, anns) :
        n \in 0..2,
        anns \in {<<Ann(TRUE, O, "a")>>,
                  <<Ann(TRUE, O, "a"), Ann(TRUE, P, "a")>>,
                  <<Ann(TRUE, P, "a"), Ann(TRUE, O, "a")>>}}

\* the lines between the two marker lines: code, commented code, an
\* annotation of @o without the marker, and a commented marker of @p
InteriorWell ==
    {<<TXT>>, <<Ind("#"), TXT>>,
     Line("#", 1, <<TXT>>, <<Ann(FALSE, O, "b")>>),
     Line("#", 2, <<TXT>>, <<Ann(TRUE, P, "a")>>)}

\* the lines before the scope: none, or the marker that opens a commented
\* scope of @q
BeforeWell == {<<>>, <<Line("#", 1, <<TXT>>, <<Ann(TRUE, Q, "a")>>)>>}

\* two marker lines of @o with the lines between them
DisksWell ==
    {<<b \o <<m1>> \o in \o <<m2>>>> :
        b \in BeforeWell, m1 \in MarkerLines, m2 \in MarkerLines,
        in \in SeqsOf(InteriorWell, 0, MaxWellInterior)}

PlansWell ==
    {<<a>> : a \in {[Args(<<>>, "") EXCEPT !.available = TRUE],
                    Args(O, "a"), Args(O, "b")}}

\* one command line over a file with one scope of @o
SpecWell == InitWith(DisksWell, PlansWell) /\ [][Next]_vars


\* a file every apply run of SpecAbort rewrites, then a file with variable
\* settings and, in half of the cases, a file after it
DisksRollback ==
    {<<LaterFile, f>> : f \in SeqsOf(LinesAbort, 1, MaxAbortLines)}
    \cup {<<LaterFile, f, LaterFile>> : f \in SeqsOf(LinesAbort, 1, MaxAbortLines)}

\* one command line over files the second of which may end the run
SpecRollback == InitWith(DisksRollback, PlansAbort) /\ [][Next]_vars


MaxBothObservations == 3

\* the observations of SpecBoth: the settings a and b of @o, seen on a
\* commented or an uncommented line that names @o once or twice
ObservationsBoth ==
    [key : {<<O, "a">>, <<O, "b">>}, f_comment : BOOLEAN, count : 1..2]

\* the observations of a discovery run, processed in any order
SpecBoth ==
    InitMerge(SeqsOf(ObservationsBoth, 0, MaxBothObservations)) /\ [][NextBoth]_vars

----------------------------------------------------------------------------
(* Vocabulary of the properties *)

\* the run in progress is a discovery run / an apply run
Discovering == pc \in {"file", "line"} /\ (inp.f_available \/ inp.f_showfiles)
IsApply(in) ==
    /\ in.ok
    /\ ~(in.f_available \/ in.f_showfiles)
    /\ in.rename_optn = <<>> /\ in.rename_setting = ""
Applying == pc \in {"file", "line"} /\ IsApply(inp)

\* the lines of the current file that have been processed
Done == 1..Len(newlines)
\* the nested level line i of the current file was classified at
LevelAt(i) == pre[i].nested_lvl + pre[i].nested_increment
ClassAt(i) == Classify(disk[fidx][i], fdb.com_ind, LevelAt(i))

\* number of leading indicators of a line (whitespace may precede each)
RECURSIVE LeadCount(_, _, _)
LeadCount(line, c, i) ==
    LET p == SkipWs(line, i)
    IN IF p <= Len(line) /\ IsInd(line[p], c)
       THEN 1 + LeadCount(line, c, p + 1) ELSE 0

\* new is line with the indicator c put before it at column 0
Prepended(line, new, c) ==
    /\ Len(new) = Len(line) + 1
    /\ new[1] = Ind(c)
    /\ \A i \in 1..Len(line) : new[i + 1] = line[i]

\* new is line without its first indicator c, which only whitespace precedes
Stripped(line, new, c) ==
    \E p \in 1..Len(line) :
        /\ \A i \in 1..(p - 1) : IsWs(line[i])
        /\ line[p] = Ind(c)
        /\ Len(new) = Len(line) - 1
        /\ \A i \in 1..Len(new) : new[i] = IF i < p THEN line[i] ELSE line[i + 1]

\* new is line with the captured values of its non-comment part replaced
\* by v, and nothing else changed
Substituted(line, new, cl, v) ==
    /\ cl.matched
    /\ Len(new) = Len(line)
    /\ \A i \in 1..Len(line) :
          new[i] = IF /\ line[i].k = "val"
                      /\ i > Len(cl.nested_com_inds)
                      /\ i <= Len(cl.nested_com_inds) + Len(cl.non_com)
                   THEN Val(v) ELSE line[i]

HasOptn(anns, o) == \E i \in 1..Len(anns) : anns[i].optn = o
HasOptnSetting(anns, o, st) ==
    \E i \in 1..Len(anns) : anns[i].optn = o /\ anns[i].setting = st

\* the annotation tokens of a file, wherever they stand
AnnTokens(file) ==
    UNION {{file[i][j] : j \in {j \in 1..Len(file[i]) : IsAnn(file[i][j])}}
           : i \in 1..Len(file)}
NoMultiNoVar(file) ==
    \A t \in AnnTokens(file) : ~t.mtag /\ t.setting \notin ANY_VAR_SETTING

----------------------------------------------------------------------------
(* Discovery runs *)

\* C1: in a run in which availability or show-files mode is in effect,
\* every line produced equals the line read, the multi-line-active flag is
\* never set, the modified flag of the file stays false, and no file is
\* rewritten
C1_DiscoveryNeverModifies ==
    /\ (Discovering /\ pc = "line") =>
          /\ \A i \in Done : newlines[i] = disk[fidx][i]
          /\ ~fdb.f_multiline_active
          /\ ~fdb.f_filemodified
    /\ Discovering => written = {} /\ disk = before
    /\ \A k \in 1..Len(runs) :
          (runs[k].inp.ok
             /\ (runs[k].inp.f_available \/ runs[k].inp.f_showfiles))
          => runs[k].written = {} /\ runs[k].after = runs[k].before

\* a show-files run that names an option and a setting has gone through a
\* file in which a scope of that option is opened and closed
C1_Witness ==
    /\ Discovering /\ pc = "line"
    /\ args.option = O /\ args.setting = "a" /\ inp.f_showfiles
    /\ Len(newlines) = Len(disk[fidx])
    /\ \E i \in Done : pre[i].nested_increment = 1
    /\ \E i \in Done : (i > 1 /\ LevelAt(i) = 1 /\ fdb.nested_increment = -1
                        /\ HasOptnSetting(ClassAt(i).tag_optn_setting_matches,
                                          O, "a"))

----------------------------------------------------------------------------
(* Apply runs over one file *)

\* what C2 says of one line: cl is the line as classified at level 0, o and
\* st the option and setting applied
SimpleRule(line, new, c, cl, o, st) ==
    /\ (cl.f_comment /\ HasOptnSetting(cl.tag_optn_setting_matches, o, st))
       => Stripped(line, new, c)
    /\ (cl.matched /\ ~cl.f_comment
          /\ HasOptn(cl.tag_optn_setting_matches, o)
          /\ ~HasOptnSetting(cl.tag_optn_setting_matches, o, st))
       => Prepended(line, new, c)
    /\ (cl.matched /\ ~cl.f_comment
          /\ HasOptnSetting(cl.tag_optn_setting_matches, o, st))
       => new = line
    /\ (cl.f_comment /\ HasOptn(cl.tag_optn_setting_matches, o)
          /\ ~HasOptnSetting(cl.tag_optn_setting_matches, o, st))
       => new = line

\* C2: applying option O with setting S to a file without multi-line markers
\* or variable settings, a commented line with an annotation O S comes out
\* with one leading indicator removed, an uncommented line with annotations
\* of O but none of O S comes out with one indicator prepended at column 0,
\* and uncommented lines with O S and commented lines with O under other
\* settings only come out unchanged
C2_ApplyTogglesByAnnotation ==
    (Applying /\ pc = "line" /\ NoMultiNoVar(disk[fidx])) =>
        \A i \in Done :
            SimpleRule(disk[fidx][i], newlines[i], fdb.com_ind,
                       Classify(disk[fidx][i], fdb.com_ind, 0),
                       InpOptn(inp), inp.setting)

\* an apply run of @o b has gone through a file in which each of the four
\* cases of C2 occurs
C2_Witness ==
    /\ Applying /\ pc = "line" /\ NoMultiNoVar(disk[fidx])
    /\ InpOptn(inp) = O /\ inp.setting = "b"
    /\ Len(newlines) = 3
    /\ disk[fidx][1] = Line("#", 1, <<TXT>>, <<Ann(FALSE, O, "b")>>)
    /\ disk[fidx][2] = Line("#", 0, <<TXT>>, <<Ann(FALSE, O, "a")>>)
    /\ disk[fidx][3] = Line("#", 1, <<TXT>>, <<Ann(FALSE, O, "a")>>)
    /\ newlines[1] = Line("#", 0, <<TXT>>, <<Ann(FALSE, O, "b")>>)
    /\ newlines[2] = Line("#", 1, <<TXT>>, <<Ann(FALSE, O, "a")>>)
    /\ newlines[3] = disk[fidx][3]

\* what C9 says of one line
OneEdit(line, new, c, cl, v) ==
    /\ \/ new = line
       \/ Prepended(line, new, c)
       \/ Stripped(line, new, c)
       \/ Substituted(line, new, cl, v)
    /\ LeadCount(new, c, 1) - LeadCount(line, c, 1) \in {-1, 0, 1}

\* C9: in apply mode every output line is the input line unchanged, or with
\* the indicator prepended once at column 0, or with exactly one leading
\* indicator removed, or with the captured value replaced inside the
\* non-comment part; the count of leading indicators changes by at most one
C9_AtMostOneEdit ==
    (Applying /\ pc = "line") =>
        \A i \in Done :
            OneEdit(disk[fidx][i], newlines[i], fdb.com_ind, ClassAt(i),
                    inp.setting)

\* an apply run has commented a line inside a scope by inheritance and has
\* replaced the value of a variable option
C9_Witness ==
    /\ Applying /\ pc = "line"
    /\ \E i \in Done :
          /\ pre[i].f_multiline_active
          /\ Prepended(disk[fidx][i], newlines[i], fdb.com_ind)
    /\ \E i \in Done :
          /\ newlines[i] # disk[fidx][i]
          /\ Substituted(disk[fidx][i], newlines[i], ClassAt(i), inp.setting)

----------------------------------------------------------------------------
(* Files without annotations *)

\* no line of the file is recognized as a line with an annotation, whatever
\* the comment indicator
Unannotated(file) ==
    \A i \in 1..Len(file) :
        \A c \in ANY_COMMENT_IND : ~Classify(file[i], c, 0).matched

\* C10: a file that contains no recognized annotation has no line changed
\* and is not rewritten, whatever the request and the mode
C10_UnannotatedUntouched ==
    /\ (pc = "line" /\ Unannotated(disk[fidx])) =>
          /\ \A i \in Done : newlines[i] = disk[fidx][i]
          /\ ~fdb.f_filemodified
    /\ \A k \in 1..Len(runs) :
          \A f \in 1..Len(runs[k].before) :
              Unannotated(runs[k].before[f])
              => /\ runs[k].after[f] = runs[k].before[f]
                 /\ f \notin runs[k].written

\* a rename run has finished over a file whose only annotation stands on a
\* line that is not recognized
C10_Witness ==
    /\ runs # <<>>
    /\ runs[1].inp.ok /\ runs[1].inp.rename_setting = "c"
    /\ runs[1].exit = ""
    /\ Unannotated(runs[1].before[1])
    /\ \E i \in 1..Len(runs[1].before[1]) : HasAnn(runs[1].before[1][i])

----------------------------------------------------------------------------
(* Sequences of runs *)

\* run k of the history is an apply run that came to its end
ApplyRun(k) == IsApply(runs[k].inp) /\ runs[k].exit = ""

\* C3: after an apply run of O=S, a second identical apply run changes no
\* line of any file and rewrites no file
C3_ApplyIdempotent ==
    \A k \in 1..(Len(runs) - 1) :
        (ApplyRun(k) /\ ApplyRun(k + 1) /\ runs[k + 1].args = runs[k].args)
        => /\ runs[k + 1].after = runs[k + 1].before
           /\ runs[k + 1].written = {}

\* run k of the history is an availability run that came to its end
AvailRun(k) == runs[k].inp.ok /\ runs[k].inp.f_available /\ runs[k].exit = ""

\* an apply run and then an availability run have come to their ends
ApplyThenAvail == Len(runs) = 2 /\ ApplyRun(1) /\ AvailRun(2)

FilesOf(r) == {r.before[f] : f \in 1..Len(r.before)}

\* optns_settings_db[optn][setting] is True: the row is shown as active
Active(r, o, st) == Get(r.optns_settings_db, <<o, st>>) = "True"

\* some line of the file carries option o more than once
TwiceOnLine(file, o) ==
    \E i \in 1..Len(file) : CountOptn(AnnsOf(file[i]), o) > 1

\* an annotation o st stands on a line of the file that is recognized
Occurs(file, o, st) ==
    \E i \in 1..Len(file) : \E c \in ANY_COMMENT_IND :
        HasOptnSetting(Classify(file[i], c, 0).tag_optn_setting_matches, o, st)

\* the comment indicators that occur in the file
IndsOf(file) ==
    UNION {{file[i][j].c : j \in {j \in 1..Len(file[i]) : file[i][j].k = "ind"}}
           : i \in 1..Len(file)}

\* the file uses one comment indicator, has no multi-line markers, and no
\* line of it starts with more than one indicator
PlainFile(file) ==
    /\ Cardinality(IndsOf(file)) <= 1
    /\ \A t \in AnnTokens(file) : ~t.mtag
    /\ \A i \in 1..Len(file) :
          \A c \in ANY_COMMENT_IND : LeadCount(file[i], c, 1) <= 1

ActiveWhenListed(r1, r2, o, st) ==
    (/\ \A f \in FilesOf(r1) : PlainFile(f) /\ ~TwiceOnLine(f, o)
     /\ \E f \in FilesOf(r1) : Occurs(f, o, st)
     /\ Cardinality(SettingsOf(r2.optns_settings_db, o)) >= 2)
    => Active(r2, o, st)

C7_HistoryIndependent ==
    (/\ Len(runs) = 3
     /\ ApplyRun(1) /\ ApplyRun(2) /\ ApplyRun(3)
     /\ runs[3].args = runs[1].args
     /\ runs[2].args.option = runs[1].args.option
     /\ runs[2].args.setting # runs[1].args.setting)
    => runs[3].after = runs[1].after

----------------------------------------------------------------------------
(* Scopes *)

\* the line carries an annotation of o, recognized or not
CarriesOptn(line, o) ==
    \E j \in 1..Len(line) : IsAnn(line[j]) /\ line[j].optn = o

\* the options of the commented scopes that enclose line i
EnclosingOptns(i) ==
    {pre[i].nested_optn_db[l] : l \in DOMAIN pre[i].nested_optn_db}

\* cl is an uncommented line with a marked annotation of o and no
\* annotation o st
Marker(cl, o, st) ==
    /\ cl.matched /\ ~cl.f_comment
    /\ \E m \in 1..Len(cl.tag_optn_setting_matches) :
          /\ cl.tag_optn_setting_matches[m].mtag
          /\ cl.tag_optn_setting_matches[m].optn = o
    /\ ~HasOptnSetting(cl.tag_optn_setting_matches, o, st)

\* lines i..j of the current file are an uncommented scope of o with a
\* setting other than st: no scope of o is open or commented around line i,
\* i and j are markers, and no line between them names o
ScopeAt(i, j, o, st) ==
    /\ i < j
    /\ ~pre[i].f_multiline_active
    /\ o \notin EnclosingOptns(i)
    /\ Marker(ClassAt(i), o, st) /\ Marker(ClassAt(j), o, st)
    /\ \A k \in (i + 1)..(j - 1) : ~CarriesOptn(disk[fidx][k], o)

\* lines i..j have the indicator prepended once each, no scope is open after
\* line j, and the next line is as it was unless it names o
ScopeCommented(i, j, o) ==
    /\ \A k \in i..j : Prepended(disk[fidx][k], newlines[k], fdb.com_ind)
    /\ (j + 1) \in Done =>
          /\ ~pre[j + 1].f_multiline_active
          /\ ~CarriesOptn(disk[fidx][j + 1], o)
             => newlines[j + 1] = disk[fidx][j + 1]

\* C5: applying O=B to an uncommented scope whose first and last lines carry
\* marked annotations of O with another setting comments the opening line,
\* every line between (whatever annotations of other options it carries)
\* and the closing line by one indicator each, and the line after the closing
\* line is not toggled by inheritance
C5_ScopeCommentedAsAWhole ==
    (Applying /\ pc = "line") =>
        \A i, j \in Done :
            ScopeAt(i, j, InpOptn(inp), inp.setting)
            => ScopeCommented(i, j, InpOptn(inp))

\* applying @o b has gone through a scope of @o a with an annotated and a
\* commented line inside and a line after it
C5_Witness ==
    /\ Applying /\ pc = "line"
    /\ InpOptn(inp) = O /\ inp.setting = "b"
    /\ Len(newlines) = 5
    /\ ScopeAt(1, 4, O, "b")
    /\ disk[fidx][2] = Line("#", 0, <<TXT>>, <<Ann(FALSE, P, "a")>>)
    /\ disk[fidx][3] = <<Ind("#"), TXT>>
    /\ disk[fidx][5] = <<TXT>>
    /\ \A k \in 1..4 : newlines[k] = <<Ind("#")>> \o disk[fidx][k]
    /\ newlines[5] = <<TXT>>

\* the file of the third scenario after '@forces off': the first four lines
\* commented, the fifth uncommented
ForcesFileOff ==
    [k \in 1..5 |-> IF k < 5 THEN <<Ind("//")>> \o ForcesFile[k]
                    ELSE <<WS, Ind("//"), Ann(FALSE, Forces, "off")>>]

\* C6: the whole pipeline, run with the request '@forces off' over the
\* five-line file of the third scenario, comments the first four lines and
\* uncomments the fifth
C6_ForcesScenario ==
    \A k \in 1..Len(runs) :
        (runs[k].args = Args(Forces, "off") /\ runs[k].before = <<ForcesFile>>)
        => runs[k].after = <<ForcesFileOff>>

\* line i stands inside a commented scope of another option and carries a
\* recognized annotation of o
NestedAt(i, o) ==
    /\ LevelAt(i) >= 1
    /\ ClassAt(i).matched
    /\ HasOptn(ClassAt(i).tag_optn_setting_matches, o)
    /\ o \notin EnclosingOptns(i)

\* what C8 says of a line with the annotations ms at level lvl
RelativeToLevel(new, c, lvl, ms, o, st) ==
    /\ HasOptnSetting(ms, o, st) => LeadCount(new, c, 1) = lvl
    /\ ~HasOptnSetting(ms, o, st) => LeadCount(new, c, 1) = lvl + 1
    /\ LeadCount(new, c, 1) >= lvl

\* C8: applying P=S, a line inside commented scopes of other options at level
\* L >= 1 that carries P S ends with exactly L leading indicators, a line
\* that carries P with other settings ends with L + 1, and neither ends with
\* fewer than L
C8_NestedToggleRelative ==
    (Applying /\ pc = "line") =>
        \A i \in Done :
            NestedAt(i, InpOptn(inp))
            => RelativeToLevel(newlines[i], fdb.com_ind, LevelAt(i),
                               ClassAt(i).tag_optn_setting_matches,
                               InpOptn(inp), inp.setting)

----------------------------------------------------------------------------
(* Rewriting *)

\* C11: in every mode the modified flag of a file is true only if some
\* produced line differs from its input line, and a file is rewritten only
\* if some line of it changed
C11_RewrittenOnlyIfChanged ==
    /\ (pc = "line" /\ fdb.f_filemodified)
       => \E i \in Done : newlines[i] # disk[fidx][i]
    /\ \A k \in 1..Len(runs) :
          \A f \in runs[k].written : runs[k].after[f] # runs[k].before[f]

----------------------------------------------------------------------------
(* Nested level *)

\* the nested level the line after line i is classified at
LevelAfter(i) ==
    IF i < Len(newlines) THEN LevelAt(i + 1)
    ELSE fdb.nested_lvl + fdb.nested_increment

\* a scope is active after line i
ActiveAfter(i) ==
    IF i < Len(newlines) THEN pre[i + 1].f_multiline_active
    ELSE fdb.f_multiline_active

\* line i carries a marked annotation of an option that is not requested
CarriesOtherMarker(i) ==
    \E m \in 1..Len(ClassAt(i).tag_optn_setting_matches) :
       /\ ClassAt(i).tag_optn_setting_matches[m].mtag
       /\ ClassAt(i).tag_optn_setting_matches[m].optn # InpOptn(inp)

\* the run in progress is a rename run
Renaming == inp.ok /\ (inp.rename_optn # <<>> \/ inp.rename_setting # "")

\* line i was toggled by inheritance inside an active scope
Inherited(i) ==
    /\ pre[i].f_multiline_active
    /\ ~f_inline_optn_match(inp, ClassAt(i).tag_optn_setting_matches)

\* cl is a commented line with a marked annotation
CommentedMarker(cl) ==
    /\ cl.matched /\ cl.f_comment
    /\ \E m \in 1..Len(cl.tag_optn_setting_matches) :
          cl.tag_optn_setting_matches[m].mtag

\* cl is an uncommented line at level lvl with a marked annotation of the
\* option that opened the commented scope of level lvl - 1
ClosingMarker(cl, db, lvl) ==
    /\ cl.matched /\ ~cl.f_comment
    /\ (lvl - 1) \in DOMAIN db
    /\ \E m \in 1..Len(cl.tag_optn_setting_matches) :
          /\ cl.tag_optn_setting_matches[m].mtag
          /\ cl.tag_optn_setting_matches[m].optn = db[lvl - 1]

\* the same, the marker being the first annotation of the line
ClosingMarkerFirst(cl, db, lvl) ==
    /\ cl.matched /\ ~cl.f_comment
    /\ (lvl - 1) \in DOMAIN db
    /\ cl.tag_optn_setting_matches[1].mtag
    /\ cl.tag_optn_setting_matches[1].optn = db[lvl - 1]

NestedLevelNonNegative ==
    /\ fdb.nested_lvl >= 0
    /\ fdb.nested_lvl + fdb.nested_increment >= 0
    /\ re_vars.nested_lvl >= 0

\* C12 as stated: the nested level is never negative, it is one more on the
\* line after a commented opening marker and one less on the line after the
\* matching closing marker
C12_NestedLevelSteps ==
    /\ NestedLevelNonNegative
    /\ pc = "line" =>
          \A i \in Done :
              /\ CommentedMarker(ClassAt(i)) => LevelAfter(i) = LevelAt(i) + 1
              /\ ClosingMarker(ClassAt(i), pre[i].nested_optn_db, LevelAt(i))
                 => LevelAfter(i) = LevelAt(i) - 1

\* C12 amended: the nested level is never negative; in discovery and apply
\* runs, after a line that is not toggled by inheritance inside an active
\* scope, it is one more if the line is a commented opening marker and one
\* less if the first annotation of the line is the matching closing marker;
\* in rename runs it stays 0
C12_NestedLevelStepsAmended ==
    /\ NestedLevelNonNegative
    /\ (pc = "line" /\ ~Renaming) =>
          \A i \in Done :
              ~Inherited(i) =>
                 /\ CommentedMarker(ClassAt(i))
                    => LevelAfter(i) = LevelAt(i) + 1
                 /\ ClosingMarkerFirst(ClassAt(i), pre[i].nested_optn_db,
                                       LevelAt(i))
                    => LevelAfter(i) = LevelAt(i) - 1
    /\ (pc = "line" /\ Renaming) =>
          fdb.nested_lvl = 0 /\ fdb.nested_increment = 0

\* a discovery run has gone through two commented opening markers, one
\* inside the other, and their two closing markers
C12_Witness ==
    /\ Discovering /\ pc = "line"
    /\ Len(newlines) = 4
    /\ CommentedMarker(ClassAt(1)) /\ CommentedMarker(ClassAt(2))
    /\ LevelAt(2) = 1 /\ LevelAt(3) = 2 /\ LevelAt(4) = 1
    /\ ClosingMarkerFirst(ClassAt(3), pre[3].nested_optn_db, 2)
    /\ ClosingMarkerFirst(ClassAt(4), pre[4].nested_optn_db, 1)
    /\ LevelAfter(4) = 0

----------------------------------------------------------------------------
(* Line mutators called in a row *)

\* the line call i of the row was given
Given(i) == IF i = 1 THEN disk[1][1] ELSE newlines[i - 1]

\* calls i and i + 1 of the row are first then second
CalledInARow(i, first, second) == pre[i] = first /\ pre[i + 1] = second

\* C13: for every line and every comment indicator, uncommenting the result
\* of commenting the line returns the line
C13_UncommentAfterComment ==
    pc = "toggle" =>
        \A i \in 1..(Len(newlines) - 1) :
            CalledInARow(i, "comment", "uncomment") => newlines[i + 1] = Given(i)

\* an indented commented line has been commented and then uncommented
C13_Witness ==
    /\ pc = "toggle"
    /\ disk[1][1] = <<WS, Ind("#"), TXT>>
    /\ fdb.com_ind = "#"
    /\ pre = <<"comment", "uncomment">>
    /\ newlines[1] = <<Ind("#"), WS, Ind("#"), TXT>>
    /\ newlines[2] = disk[1][1]

\* line begins with optional whitespace and exactly one indicator c
OneLeadingIndicator(line, c) == LeadCount(line, c, 1) = 1

\* C14: for every line that begins with optional leading whitespace and
\* exactly one comment indicator, commenting the result of uncommenting the
\* line returns the line
C14_CommentAfterUncomment ==
    pc = "toggle" =>
        \A i \in 1..(Len(newlines) - 1) :
            (/\ CalledInARow(i, "uncomment", "comment")
             /\ OneLeadingIndicator(Given(i), fdb.com_ind))
            => newlines[i + 1] = Given(i)

----------------------------------------------------------------------------
(* Variable options *)

\* the modified flag after line i of the current file
ModifiedAfter(i) ==
    IF i < Len(newlines) THEN pre[i + 1].f_filemodified ELSE fdb.f_filemodified

\* ann is a variable setting of option o whose regex has one capture group
\* and matches the non-comment part non_com
VarAnn(ann, o, non_com) ==
    /\ ann.optn = o
    /\ ann.setting \in ANY_VAR_SETTING
    /\ parse_inline_regex(non_com, ann.setting).ok

\* cl is an uncommented line on which every annotation of option o is a
\* variable setting that captures the value v
AlreadySet(cl, o, v) ==
    /\ cl.matched /\ ~cl.f_comment
    /\ HasOptn(cl.tag_optn_setting_matches, o)
    /\ \A m \in 1..Len(cl.tag_optn_setting_matches) :
          cl.tag_optn_setting_matches[m].optn = o
          => /\ VarAnn(cl.tag_optn_setting_matches[m], o, cl.non_com)
             /\ parse_inline_regex(cl.non_com,
                    cl.tag_optn_setting_matches[m].setting).str = v

VarLine(cl, o) ==
    /\ cl.matched /\ ~cl.f_comment
    /\ CountOptn(cl.tag_optn_setting_matches, o) = 1
    /\ Cardinality({j \in 1..Len(cl.non_com) : cl.non_com[j].k = "val"}) = 1
    /\ \A m \in 1..Len(cl.tag_optn_setting_matches) :
          /\ ~cl.tag_optn_setting_matches[m].mtag
          /\ cl.tag_optn_setting_matches[m].optn = o
             => VarAnn(cl.tag_optn_setting_matches[m], o, cl.non_com)

\* line i of the file is such a line at nested level 0 (no line before it
\* carries a multi-line marker)
VarLineOfFile(file, i, o) ==
    /\ get_comment_indicator(file, GENERIC_RE_VARS) # None
    /\ \A j \in 1..(i - 1) : \A m \in 1..Len(AnnsOf(file[j])) :
          ~AnnsOf(file[j])[m].mtag
    /\ VarLine(Classify(file[i], get_comment_indicator(file, GENERIC_RE_VARS), 0), o)

----------------------------------------------------------------------------
(* Availability states *)

\* the state of an entry of the availability database
EntryOf(db, key) ==
    IF key \notin DOMAIN db THEN "Unset"
    ELSE IF db[key] = "True" THEN "Active"
    ELSE IF db[key] = "False" THEN "Inactive"
    ELSE IF db[key] = "?" THEN "Ambiguous"
    ELSE "Both"

\* the availability state table: the state after one observation of an
\* entry in state cur, on a line that is commented or not and carries the
\* option count times; the table has no row for Both
StateTable(cur, commented, count) ==
    IF cur = "Unset"
    THEN IF count >= 2 THEN "Both"
         ELSE IF commented THEN "Inactive" ELSE "Active"
    ELSE IF cur = "Active" THEN IF commented THEN "Ambiguous" ELSE "Active"
    ELSE IF cur = "Inactive" THEN IF commented THEN "Inactive" ELSE "Ambiguous"
    ELSE cur

\* the state table applied n times
RECURSIVE StateTableTimes(_, _, _, _)
StateTableTimes(cur, commented, count, n) ==
    IF n = 0 THEN cur
    ELSE StateTableTimes(StateTable(cur, commented, count), commented, count, n - 1)

\* the annotations of a line of a discovery run that are observed: those
\* before the annotation that closes a commented scope, if any
RECURSIVE ObservedUpTo(_, _, _, _)
ObservedUpTo(cl, db, lvl, m) ==
    IF m > Len(cl.tag_optn_setting_matches) THEN m - 1
    ELSE IF /\ cl.tag_optn_setting_matches[m].mtag
            /\ ~cl.f_comment
            /\ (lvl - 1) \in DOMAIN db
            /\ db[lvl - 1] = cl.tag_optn_setting_matches[m].optn
    THEN m - 1
    ELSE ObservedUpTo(cl, db, lvl, m + 1)

\* the observations of the entry key among the annotations 1..upto of ms
Observations(ms, key, upto) ==
    Cardinality({m \in 1..upto : <<ms[m].optn, ms[m].setting>> = key})

\* the keys of the non-variable settings among the annotations ms
PlainKeys(ms) ==
    {<<ms[m].optn, ms[m].setting>> :
        m \in {m \in 1..Len(ms) : ms[m].setting \notin ANY_VAR_SETTING}}

\* the step of a discovery run over the line cl leaves the entry key in the
\* state the table gives for the n observations of it; the table is silent
\* on an entry in state Both
FollowsTable(cl, key, n) ==
    \/ EntryOf(optns_settings_db, key) = "Both"
    \/ (n >= 2 /\ StateTable(EntryOf(optns_settings_db, key), cl.f_comment,
                            CountOptn(cl.tag_optn_setting_matches, key[1])) = "Both")
    \/ EntryOf(optns_settings_db', key)
          = StateTableTimes(EntryOf(optns_settings_db, key), cl.f_comment,
                            CountOptn(cl.tag_optn_setting_matches, key[1]), n)

LineFollowsTable(cl, upto) ==
    \A key \in PlainKeys(cl.tag_optn_setting_matches) :
        FollowsTable(cl, key, Observations(cl.tag_optn_setting_matches, key, upto))

ObservedLineFollowsTable(cl, lvl) ==
    LineFollowsTable(cl, ObservedUpTo(cl, fdb.nested_optn_db, lvl, 1))

\* C17: in a discovery run every observation of a non-variable entry moves
\* the entry as the availability state table says
C17_AvailabilityTable ==
    [][(/\ Discovering /\ pc = "line" /\ pc' = "line"
        /\ Len(newlines') = Len(newlines) + 1)
       => ObservedLineFollowsTable(
              Classify(disk[fidx][Len(newlines) + 1], fdb.com_ind,
                       fdb.nested_lvl + fdb.nested_increment),
              fdb.nested_lvl + fdb.nested_increment)]_vars

\* a discovery run has gone through three lines annotated @o a, a commented
\* one and an uncommented one among them, and holds @o a as ambiguous
C17_Witness ==
    /\ Discovering /\ pc = "line"
    /\ Len(newlines) = 3
    /\ \A i \in 1..3 : HasOptnSetting(ClassAt(i).tag_optn_setting_matches, O, "a")
    /\ ClassAt(1).f_comment /\ ~ClassAt(2).f_comment
    /\ EntryOf(optns_settings_db, <<O, "a">>) = "Ambiguous"

\* the state the observations obs of one entry lead to, whatever their
\* order: nothing observed, observed uncommented only, commented only, both
Merged(obs) ==
    IF obs = {} THEN "Unset"
    ELSE IF obs = {FALSE} THEN "Active"
    ELSE IF obs = {TRUE} THEN "Inactive"
    ELSE "Ambiguous"

\* the observations of key among those of the sequence seq
ObservedOf(seq, key) ==
    {seq[i].f_comment : i \in {i \in 1..Len(seq) : seq[i].key = key}}

\* C18: for observations that lead through Active, Inactive and Ambiguous
\* only, the final state of every entry is the same for every order in which
\* the observing lines and files are processed
C18_OrderIndependent ==
    (pc = "merge" /\ plan = <<>>) =>
        \A key \in {before[i].key : i \in 1..Len(before)} :
            EntryOf(optns_settings_db, key) = Merged(ObservedOf(before, key))

\* four observations were processed in another order than they were given
\* in, and left @o a ambiguous and @o b active
C18_Witness ==
    /\ pc = "merge" /\ plan = <<>>
    /\ Len(before) = 4
    /\ pre # before
    /\ EntryOf(optns_settings_db, <<O, "a">>) = "Ambiguous"
    /\ EntryOf(optns_settings_db, <<O, "b">>) = "Active"

----------------------------------------------------------------------------
(* Files of one run *)

\* the comment indicator of the file when nothing was processed before it
IndicatorAlone(file) == get_comment_indicator(file, GENERIC_RE_VARS)

\* the file before the one to be opened next was passed over for want of a
\* comment indicator
PassedOver == pc = "file" /\ fidx > 1 /\ newlines = <<>>

\* C19: the outcome of processing a file depends on its content and on the
\* request only, not on the files processed before it: the file gets the
\* comment indicator it gets on its own, it is passed over only if it has
\* none on its own, and its lines go through _process_line from the initial
\* file variables
C19_FilesIndependent ==
    /\ pc = "line" =>
          /\ fdb.com_ind = IndicatorAlone(disk[fidx])
          /\ Len(pre) >= 1 => pre[1] = FileVarsDatabase(fdb.com_ind)
    /\ PassedOver => IndicatorAlone(disk[fidx - 1]) = None

----------------------------------------------------------------------------
(* The database handed to the report *)

\* the number of settings the database db holds for the option of key
Recorded(db, key) == Cardinality({k \in DOMAIN db : k[1] = key[1]})

\* cut is db without the options of fewer than two settings, and with every
\* other option and all of its settings
CutOf(db, cut) ==
    /\ \A key \in DOMAIN cut : Recorded(cut, key) >= 2
    /\ \A key \in DOMAIN db :
          Recorded(db, key) >= 2 => key \in DOMAIN cut /\ cut[key] = db[key]

\* C20: after the traversal the database handed to the report holds no
\* option with fewer than two recorded settings, and holds every option with
\* two or more recorded settings with all of its settings
C20_SingularCut ==
    [][(/\ pc = "file" /\ pc' = "idle"
        /\ Len(runs') = Len(runs) + 1
        /\ runs'[Len(runs')].exit = "")
       => CutOf(optns_settings_db, runs'[Len(runs')].optns_settings_db)]_vars

\* a discovery run over a file with two settings of @o and one of @p has
\* ended, and the database it reports holds the two settings of @o only
C20_Witness ==
    /\ pc = "idle" /\ Len(runs) = 1
    /\ runs[1].exit = "" /\ runs[1].inp.f_available
    /\ DOMAIN runs[1].optns_settings_db = {<<O, "a">>, <<O, "b">>}
    /\ \E i \in 1..Len(runs[1].before[1]) : HasOptn(AnnsOf(runs[1].before[1][i]), P)

----------------------------------------------------------------------------
(* The report of an availability run *)

\* an availability run over the one file of the disk has come to its end,
\* every line of the file processed
ReportedOneFile ==
    /\ pc = "idle" /\ Len(runs) = 1 /\ Len(disk) = 1
    /\ AvailRun(1)
    /\ Len(newlines) = Len(disk[1])

\* line i of the file of the run that ended, as it was classified
ReportedClassAt(i) == Classify(disk[1][i], fdb.com_ind, LevelAt(i))

\* the annotation with the entry key was observed on line i, which was
\* commented or not as told
ObservedAs(i, key, commented) ==
    /\ ReportedClassAt(i).matched
    /\ ReportedClassAt(i).f_comment = commented
    /\ Observations(ReportedClassAt(i).tag_optn_setting_matches, key,
                    ObservedUpTo(ReportedClassAt(i), pre[i].nested_optn_db,
                                 LevelAt(i), 1)) >= 1

\* the rows the report prints for the entry key: one if the database handed
\* to the report holds the entry, none otherwise
PrintedRows(db, key) ==
    IF key \in DOMAIN db THEN {print_setting(db[key], key[2])} ELSE {}

\* both a commented and an uncommented line of the file carry the entry key
SeenBothWays(key) ==
    /\ \E i \in Done : ObservedAs(i, key, TRUE)
    /\ \E j \in Done : ObservedAs(j, key, FALSE)

\* the entries of the non-variable settings of the file
PlainKeysOfFile ==
    UNION {PlainKeys(ReportedClassAt(i).tag_optn_setting_matches) : i \in Done}

\* C21 as stated: if a commented and an uncommented line of a file carry
\* the same option and setting, the availability run prints the setting
\* between question marks
C21_AmbiguousReported ==
    ReportedOneFile =>
        \A key \in PlainKeysOfFile :
            SeenBothWays(key)
            => PrintedRows(runs[1].optns_settings_db, key)
                  = {<<"?", key[2], "?">>}

\* the same, on lines that carry the option of key once
SeenBothWaysOnce(key) ==
    /\ \E i \in Done :
          /\ ObservedAs(i, key, TRUE)
          /\ CountOptn(ReportedClassAt(i).tag_optn_setting_matches, key[1]) = 1
    /\ \E j \in Done :
          /\ ObservedAs(j, key, FALSE)
          /\ CountOptn(ReportedClassAt(j).tag_optn_setting_matches, key[1]) = 1

\* C21 amended: the same, provided the run records two or more settings of
\* the option and each of the two lines carries the option once
C21_AmbiguousReportedAmended ==
    ReportedOneFile =>
        \A key \in PlainKeysOfFile :
            (SeenBothWaysOnce(key) /\ Recorded(optns_settings_db, key) >= 2)
            => PrintedRows(runs[1].optns_settings_db, key)
                  = {<<"?", key[2], "?">>}

\* the run went over a commented and an uncommented line of @o a and a line
\* of @o b, and prints a between question marks
C21_Witness ==
    /\ ReportedOneFile
    /\ Len(disk[1]) = 3
    /\ ObservedAs(1, <<O, "a">>, TRUE)
    /\ ObservedAs(2, <<O, "a">>, FALSE)
    /\ ObservedAs(3, <<O, "b">>, TRUE)
    /\ PrintedRows(runs[1].optns_settings_db, <<O, "a">>) = {<<"?", "a", "?">>}

----------------------------------------------------------------------------
(* Variable settings in a discovery run *)

\* annotation ann of the line cl is recorded as a variable value of its
\* option, and the ordinary database has no entry for its setting
RecordedAsVariable(cl, ann) ==
    /\ <<ann.optn, parse_inline_regex(cl.non_com, ann.setting).str>>
          \in var_optns_values_db
    /\ <<ann.optn, ann.setting>> \notin DOMAIN optns_settings_db

\* the variable settings among the first upto annotations of the line cl are
\* recorded as variable values
VariablesRecorded(cl, upto) ==
    \A m \in 1..upto :
        cl.tag_optn_setting_matches[m].setting \in ANY_VAR_SETTING
        => RecordedAsVariable(cl, cl.tag_optn_setting_matches[m])

\* C22: in a discovery run every observation of a variable setting, on a
\* commented or an uncommented line, records the captured value as a
\* variable value of the option, and creates no entry for the setting in the
\* ordinary database
C22_VariableObserved ==
    (Discovering /\ pc = "line") =>
        \A i \in Done :
            VariablesRecorded(ClassAt(i),
                ObservedUpTo(ClassAt(i), pre[i].nested_optn_db, LevelAt(i), 1))

----------------------------------------------------------------------------
(* Input errors *)

\* the option string s has the form (mtag*)(tag+)(identifier): t markers, then
\* tag characters up to r, then identifier characters to the end
HasOptionForm(s) ==
    \E t \in 0..Len(s), r \in 0..Len(s) :
        /\ t < r
        /\ r < Len(s)
        /\ \A i \in 1..t : s[i] = MULTI_TAG
        /\ \A i \in (t + 1)..r : s[i] \in TagChars
        /\ \A i \in (r + 1)..Len(s) : s[i] \in WordChars

\* the setting has characters other than those of identifiers and spaces: of
\* the settings of the model, the variable settings (an equals sign, quotes,
\* brackets)
HasForeignCharacter(setting) == setting \in ANY_VAR_SETTING

\* the command line a asks for a setting to be applied
ApplyMode(a) ==
    /\ a.setting # ""
    /\ ~a.available
    /\ ~a.showfiles
    /\ a.rename_optn = <<>>
    /\ a.rename_setting = ""

\* an apply command line with an option or a setting that is not valid
InvalidInput(a) ==
    ApplyMode(a) /\ (~HasOptionForm(a.option) \/ HasForeignCharacter(a.setting))

\* C23: in apply mode, if the option does not have the form
\* (mtag*)(tag+)(identifier) or the setting contains a character outside
\* identifier characters and spaces, the run reports an InputError and stops
\* before any source file is read, processed or rewritten
C23_InputErrorStops ==
    /\ pc # "idle" => ~InvalidInput(args)
    /\ \A k \in 1..Len(runs) :
          InvalidInput(runs[k].args)
          => /\ runs[k].exit = "InputError"
             /\ runs[k].after = runs[k].before
             /\ runs[k].written = {}

----------------------------------------------------------------------------
(* Exit status *)

\* C24: a run that ends through an input-validation failure or a
\* variable-regex group-count failure terminates with a nonzero exit status,
\* and a successful run terminates with status 0
C24_ExitStatus ==
    \A k \in 1..Len(runs) :
        /\ runs[k].exit \in {"InputError", "InvalidVariableRegex"}
           => exit_status(runs[k].exit) # 0
        /\ runs[k].exit = "" => exit_status(runs[k].exit) = 0

----------------------------------------------------------------------------
(* Variable settings that are not valid *)

\* the number of capture groups of the regex of a variable setting
CaptureGroups(setting) ==
    IF setting = VarRe0 THEN 0 ELSE IF setting = VarRe1 THEN 1 ELSE 2

\* the regex of a variable setting matches the non-comment part
MatchesNonCom(non_com) == \E j \in 1..Len(non_com) : non_com[j].k = "val"

\* the run with the input in examines the variable settings of option o:
\* any option in discovery mode, the requested option in apply mode
Examines(in, o) ==
    \/ in.f_available \/ in.f_showfiles
    \/ IsApply(in) /\ o = InpOptn(in)

\* cl is an uncommented line with a variable setting the run examines whose
\* regex has no or several capture groups or does not match the line
InvalidRegexOn(cl, in) ==
    /\ cl.matched /\ ~cl.f_comment
    /\ \E m \in 1..Len(cl.tag_optn_setting_matches) :
          /\ cl.tag_optn_setting_matches[m].setting \in ANY_VAR_SETTING
          /\ Examines(in, cl.tag_optn_setting_matches[m].optn)
          /\ \/ CaptureGroups(cl.tag_optn_setting_matches[m].setting) # 1
             \/ ~MatchesNonCom(cl.non_com)

\* C25: when a processed uncommented line carries a variable-setting
\* annotation (any option in discovery mode, the requested option in apply
\* mode) whose regex has zero or more than one capture group, or does not
\* match the line's non-comment part, the run aborts at that line: the run
\* does not go on after the line, the file containing the line is not
\* rewritten and no later file is processed
C25_InvalidRegexAborts ==
    /\ (pc = "line" /\ (Discovering \/ Applying))
       => \A i \in Done : ~InvalidRegexOn(ClassAt(i), inp)
    /\ (pc = "idle" /\ Len(runs) = 1
          /\ runs[1].exit = "InvalidVariableRegex")
       => \A j \in fidx..Len(disk) :
             j \notin runs[1].written /\ disk[j] = runs[1].before[j]

----------------------------------------------------------------------------
(* Files that are not UTF-8 *)

\* reading the file raises a UnicodeDecodeError at some line
RaisesDecodeError(file) == FirstUndecodable(file, 1) # 0

\* C26: a file whose reading raises a UTF-8 decode error at any line is
\* skipped: it is never rewritten (its bytes on disk are unchanged) and the
\* run continues with the remaining files
C26_UndecodableSkipped ==
    /\ \A j \in 1..Len(disk) :
          RaisesDecodeError(before[j])
          => j \notin written /\ disk[j] = before[j]
    /\ \A k \in 1..Len(runs) :
          (\E j \in 1..Len(runs[k].before) :
              RaisesDecodeError(runs[k].before[j]))
          => runs[k].exit = ""

----------------------------------------------------------------------------
(* The size limit *)

\* the file has been checked, with this outcome
Gated(outcome) == pc = "gated" /\ pre = <<outcome>>
SkippedForSize == Gated("size")
\* the file is handed on if its line count allows it
PassesSizeCheck ==
    pc = "gated"
    /\ pre = <<IF disk[1].linecount > inp.max_flines THEN "lines" ELSE "pass">>

\* C27: with size limit max_fsize_kb = K, a file of exactly K KiB
\* (K x 1024 bytes) is processed and every larger file is skipped without
\* modification
C27_SizeLimitKiB ==
    pc = "gated" =>
        /\ disk[1].st_size = 1024 * inp.max_fsize_kb => PassesSizeCheck
        /\ disk[1].st_size > 1024 * inp.max_fsize_kb => SkippedForSize
        /\ disk = before

\* C27, amended: with size limit max_fsize_kb = K, a file of exactly K kB
\* (K x 1000 bytes) passes the size check, and every larger file is skipped
\* without modification
C27_SizeLimitKB ==
    pc = "gated" =>
        /\ disk[1].st_size = 1000 * inp.max_fsize_kb => PassesSizeCheck
        /\ disk[1].st_size > 1000 * inp.max_fsize_kb => SkippedForSize
        /\ disk = before

\* a file of exactly K kB with few enough lines has been handed on
C27_Witness ==
    /\ Gated("pass")
    /\ disk[1].st_size = 1000 * inp.max_fsize_kb

----------------------------------------------------------------------------
(* Renaming there and back *)

\* the new names of the command line a occur in no annotation of the files
NewNamesUnused(a, files) ==
    \A j \in 1..Len(files) : \A t \in AnnTokens(files[j]) :
        /\ a.rename_optn # <<>> => t.optn # a.rename_optn
        /\ a.rename_setting # "" => t.setting # a.rename_setting

\* two runs are over: a rename run with new names the files did not hold,
\* and the rename run that takes it back
RenamedThereAndBack ==
    /\ pc = "idle"
    /\ Len(runs) = 2
    /\ runs[1].args.rename_optn # <<>> \/ runs[1].args.rename_setting # ""
    /\ runs[2].args = Back(runs[1].args)
    /\ NewNamesUnused(runs[1].args, runs[1].before)

\* C28: renaming option X to Y and then Y back to X (likewise setting s to t
\* and back, or option and setting together and back) restores every file to
\* its content before the first rename, provided Y (resp. t) did not occur
\* in the files beforehand
C28_RenameRoundTrip ==
    RenamedThereAndBack => runs[2].after = runs[1].before

----------------------------------------------------------------------------
(* Lines of a rename run *)

\* the state of the scopes in the file variables f
ScopeState(f) ==
    <<f.nested_lvl, f.nested_increment, f.f_multiline_active, f.f_multicommd,
      f.nested_optn_db>>

\* the token new stands where old stood, and differs from it at most in
\* the option or setting text that the run renames
RenamedToken(old, new) ==
    \/ new = old
    \/ /\ IsAnn(old) /\ IsAnn(new)
       /\ old.optn = InpOptn(inp)
       /\ new.mtag = old.mtag
       /\ new.optn \in {old.optn} \cup ({inp.rename_optn} \ {<<>>})
       /\ new.setting \in {old.setting} \cup ({inp.rename_setting} \ {""})

\* line i of the current file came out of the rename run as the claim says
RenamedLine(i) ==
    /\ ScopeState(pre[i]) = ScopeState(FileVarsDatabase(fdb.com_ind))
    /\ Classify(newlines[i], fdb.com_ind, LevelAt(i)).f_comment
          = ClassAt(i).f_comment
    /\ ~HasOptn(AnnsOf(disk[fidx][i]), InpOptn(inp))
          => newlines[i] = disk[fidx][i]
    /\ Len(newlines[i]) = Len(disk[fidx][i])
    /\ \A j \in 1..Len(newlines[i]) :
          RenamedToken(disk[fidx][i][j], newlines[i][j])

\* C29: in a rename run, processing any line changes none of nested_level,
\* nested_increment, multiline_active, multiline_was_commented or the nested
\* option stack, never changes whether the line is commented, leaves lines
\* without an annotation of the requested option unchanged, and changes only
\* the option (or setting) text of annotations of the requested option
C29_RenameLineFrame ==
    (pc = "line" /\ Renaming) =>
        /\ ScopeState(fdb) = ScopeState(FileVarsDatabase(fdb.com_ind))
        /\ \A i \in Done : RenamedLine(i)

----------------------------------------------------------------------------
(* Rename runs that are not valid *)

\* the command line a names a new option that does not have the form of an
\* option, or a new setting without a setting to rename
InvalidRename(a) ==
    \/ a.rename_optn # <<>> /\ ~HasOptionForm(a.rename_optn)
    \/ a.rename_setting # "" /\ a.setting = ""

\* C30: in every rename run that supplies a new option name (with or
\* without a new setting name), the new option name is validated against
\* the option grammar (mtag*)(tag+)(identifier) before any file is
\* processed, and an invalid new name aborts the run with an InputError; a
\* rename-setting run without a source setting is rejected
C30_RenameValidated ==
    /\ pc # "idle" => ~InvalidRename(args)
    /\ \A k \in 1..Len(runs) :
          InvalidRename(runs[k].args)
          => /\ runs[k].exit = "InputError"
             /\ runs[k].after = runs[k].before
             /\ runs[k].written = {}

----------------------------------------------------------------------------
(* Closing markers *)

\* the nested option stack after line i
StackAfter(i) ==
    IF i < Len(newlines) THEN pre[i + 1].nested_optn_db
    ELSE fdb.nested_optn_db

\* line i wrote the entry of level l of the stack: a commented line at
\* level l with a marked annotation, not toggled by inheritance
OpenedAt(i, l) ==
    /\ LevelAt(i) = l
    /\ CommentedMarker(ClassAt(i))
    /\ ~Inherited(i)

\* the last marked annotation of a classified line
LastMarker(cl) ==
    LET ms == cl.tag_optn_setting_matches
        m == CHOOSE k \in 1..Len(ms) :
                 ms[k].mtag /\ \A j \in (k + 1)..Len(ms) : ~ms[j].mtag
    IN ms[m]

\* the marker that opened the commented scope of level l open before line i
OpeningMarker(i, l) ==
    LET j == CHOOSE k \in 1..(i - 1) :
                 OpenedAt(k, l) /\ \A h \in (k + 1)..(i - 1) : ~OpenedAt(h, l)
    IN LastMarker(ClassAt(j))

\* line i closed the commented scope of the level below it: the entry is
\* popped and the nested level goes down
ClosedAt(i) ==
    /\ (LevelAt(i) - 1) \in DOMAIN pre[i].nested_optn_db
    /\ (LevelAt(i) - 1) \notin DOMAIN StackAfter(i)
    /\ LevelAfter(i) = LevelAt(i) - 1

\* a marked annotation of the line equals the marker a in option and setting
CarriesMarker(cl, a) ==
    \E m \in 1..Len(cl.tag_optn_setting_matches) :
       /\ cl.tag_optn_setting_matches[m].mtag
       /\ cl.tag_optn_setting_matches[m].optn = a.optn
       /\ cl.tag_optn_setting_matches[m].setting = a.setting

\* C31: a commented multi-line scope opened by '*O S' is closed (stack entry
\* popped, nested level decremented, multiline_active cleared) only by a
\* marked annotation whose tag, option and setting all equal the opening
\* marker's; a marker of the same option with a different setting does not
\* close it
C31_ClosedBySameTriple ==
    (pc = "line" /\ ~Renaming) =>
       \A i \in Done :
          ClosedAt(i) =>
             /\ \E k \in 1..(i - 1) : OpenedAt(k, LevelAt(i) - 1)
             /\ CarriesMarker(ClassAt(i), OpeningMarker(i, LevelAt(i) - 1))
             /\ ~ActiveAfter(i)

\* the same with the setting left out of the comparison: the closing line
\* carries a marked annotation of the option of the opening marker
C31_ClosedBySameOption ==
    (pc = "line" /\ ~Renaming) =>
       \A i \in Done :
          ClosedAt(i) =>
             /\ \E k \in 1..(i - 1) : OpenedAt(k, LevelAt(i) - 1)
             /\ \E m \in 1..Len(ClassAt(i).tag_optn_setting_matches) :
                   /\ ClassAt(i).tag_optn_setting_matches[m].mtag
                   /\ ClassAt(i).tag_optn_setting_matches[m].optn
                      = OpeningMarker(i, LevelAt(i) - 1).optn
             /\ ~ActiveAfter(i)

----------------------------------------------------------------------------
(* Annotations of one line *)

\* lines 969-1077 for line i of the current file, stopped after the first m
\* annotations of the line
RECURSIVE AfterAnnotations(_, _)
AfterAnnotations(i, m) ==
    IF m = 0
    THEN MultiLine(disk[fidx][i], AdjustNestedLevel(pre[i]), inp,
                   optns_settings_db, var_optns_values_db, ClassAt(i),
                   Inherited(i))
    ELSE LET S == AfterAnnotations(i, m - 1)
         IN IF S.err # "" \/ S.freeze THEN S
            ELSE Match(S, ClassAt(i).tag_optn_setting_matches[m],
                       disk[fidx][i], ClassAt(i), inp,
                       ClassAt(i).tag_optn_setting_matches)

\* the annotations of line i
AnnotationsOf(i) == 1..Len(ClassAt(i).tag_optn_setting_matches)

\* annotation m of line i changed the scope state
ActsOnScope(i, m) ==
    ScopeState(AfterAnnotations(i, m).fdb)
    # ScopeState(AfterAnnotations(i, m - 1).fdb)

\* annotation m of line i changed the value of f_multiline_active
ActsOnActive(i, m) ==
    AfterAnnotations(i, m).fdb.f_multiline_active
    # AfterAnnotations(i, m - 1).fdb.f_multiline_active

\* the scope state after line i
ScopeAfter(i) ==
    IF i < Len(newlines) THEN ScopeState(pre[i + 1]) ELSE ScopeState(fdb)

\* C32: while one line is processed the annotations are handled left to
\* right and at most one multi-line open or close is acted upon:
\* multiline_active changes its value at most once per line, and after the
\* first annotation that opens or closes a multi-line scope no later
\* annotation of the line changes the scope state or the produced line
C32_OneScopeChangePerLine ==
    (pc = "line" /\ ~Renaming) =>
       \A i \in Done :
          /\ Cardinality({m \in AnnotationsOf(i) : ActsOnActive(i, m)}) <= 1
          /\ \A m \in AnnotationsOf(i) :
                ActsOnScope(i, m) =>
                   /\ ScopeAfter(i) = ScopeState(AfterAnnotations(i, m).fdb)
                   /\ newlines[i] = AfterAnnotations(i, m).newline

\* the annotations taken one by one give the line and the scope state the
\* run has produced
C32_StepsAgree ==
    (pc = "line" /\ ~Renaming) =>
       \A i \in Done :
          /\ newlines[i]
             = AfterAnnotations(i, Len(ClassAt(i).tag_optn_setting_matches))
                  .newline
          /\ ScopeAfter(i)
             = ScopeState(AfterAnnotations(
                   i, Len(ClassAt(i).tag_optn_setting_matches)).fdb)

\* the same for the uncommented lines, where the annotation that opens or
\* closes a scope freezes the line
C32_OneScopeChangeUncommented ==
    (pc = "line" /\ ~Renaming) =>
       \A i \in Done :
          ~ClassAt(i).f_comment =>
             /\ Cardinality({m \in AnnotationsOf(i) : ActsOnActive(i, m)}) <= 1
             /\ \A m \in AnnotationsOf(i) :
                   ActsOnScope(i, m) =>
                      /\ ScopeAfter(i) = ScopeState(AfterAnnotations(i, m).fdb)
                      /\ newlines[i] = AfterAnnotations(i, m).newline

----------------------------------------------------------------------------
(* Lines toggled by inheritance *)

\* the line the inheritance toggle produces from line i
ToggledLine(i) ==
    IF pre[i].f_multicommd = "False"
    THEN comment(disk[fidx][i], fdb.com_ind)
    ELSE uncomment(disk[fidx][i], fdb.com_ind)

\* C33: when multiline_active is true and the line has no annotation of the
\* requested option, the produced line is comment(line) if
\* multiline_was_commented is false and uncomment(line) otherwise, and the
\* line changes no scope state (multiline_active, multiline_was_commented,
\* pending nested increment, nested option stack) it was classified with,
\* whatever annotations of other options it carries
C33_InheritanceToggle ==
    pc = "line" =>
       \A i \in Done :
          Inherited(i) =>
             /\ newlines[i] = ToggledLine(i)
             /\ ScopeAfter(i) = ScopeState(AdjustNestedLevel(pre[i]))

\* a line that carries a marker of another option has been toggled inside
\* an active scope of the requested option
C33_Witness ==
    /\ pc = "line"
    /\ \E i \in Done :
          /\ Inherited(i)
          /\ CarriesOtherMarker(i)
          /\ newlines[i] # disk[fidx][i]
          /\ newlines[i] = ToggledLine(i)

----------------------------------------------------------------------------
(* Scopes with both markers *)

\* line i of the current file carries a marker of the requested option
RequestedMarker(i) ==
    \E m \in 1..Len(AnnsOf(disk[fidx][i])) :
       /\ AnnsOf(disk[fidx][i])[m].mtag
       /\ AnnsOf(disk[fidx][i])[m].optn = InpOptn(inp)

\* lines j and k are the opening and the closing marker line of the first
\* scope of the requested option in the current file: both are commented
\* or both are not
WellFormedScope(j, k) ==
    /\ j < k
    /\ RequestedMarker(j) /\ RequestedMarker(k)
    /\ \A h \in 1..(k - 1) : h # j => ~RequestedMarker(h)
    /\ LeadCount(disk[fidx][j], fdb.com_ind, 1)
       = LeadCount(disk[fidx][k], fdb.com_ind, 1)

\* the scope is being commented or uncommented: its opening line is toggled
BeingToggled(j) == newlines[j] # disk[fidx][j]

\* C34: for a well-formed multi-line scope of the requested option (an
\* opening and a closing marker line with any number of lines between them
\* and no other marker of the option between them), after the closing line
\* multiline_active is false and the nested level, the pending increment
\* applied, is the one before the opening line, both when the scope is
\* being commented and when it is being uncommented
C34_ScopeRestoresLevel ==
    (pc = "line" /\ Applying) =>
       \A j \in Done : \A k \in Done :
          (WellFormedScope(j, k) /\ BeingToggled(j)) =>
             /\ ~ActiveAfter(k)
             /\ LevelAfter(k) = LevelAt(j)

\* the same for the scopes whose two marker lines carry the marker alone
C34_ScopeRestoresLevelAlone ==
    (pc = "line" /\ Applying) =>
       \A j \in Done : \A k \in Done :
          (/\ WellFormedScope(j, k) /\ BeingToggled(j)
           /\ Len(AnnsOf(disk[fidx][j])) = 1
           /\ Len(AnnsOf(disk[fidx][k])) = 1) =>
             /\ ~ActiveAfter(k)
             /\ LevelAfter(k) = LevelAt(j)

----------------------------------------------------------------------------
(* Lines without the requested option *)

\* line i carries no annotation of the requested option and was processed
\* outside every active scope
OutsideRequest(i) ==
    /\ ~f_inline_optn_match(inp, ClassAt(i).tag_optn_setting_matches)
    /\ ~pre[i].f_multiline_active

\* no annotation of the option o stands in the file
FreeOf(file, o) == \A t \in AnnTokens(file) : t.optn # o

\* C35: in an apply run of O=S a line that carries no annotation of O and
\* is processed while multiline_active is false is output unchanged,
\* whatever annotations of other options it carries; consequently a file
\* with no annotation of O is never rewritten
C35_OtherLinesUnchanged ==
    /\ (pc = "line" /\ Applying) =>
          \A i \in Done : OutsideRequest(i) => newlines[i] = disk[fidx][i]
    /\ \A k \in 1..Len(runs) :
          IsApply(runs[k].inp) =>
             \A f \in 1..Len(runs[k].before) :
                FreeOf(runs[k].before[f], InpOptn(runs[k].inp))
                => /\ runs[k].after[f] = runs[k].before[f]
                   /\ f \notin runs[k].written

\* an apply run has gone through a file with commented and uncommented
\* annotations of other options, a marker among them, and none of the
\* requested option, and has ended
C35_Witness ==
    /\ pc = "idle" /\ Len(runs) = 1
    /\ IsApply(runs[1].inp)
    /\ FreeOf(runs[1].before[1], InpOptn(runs[1].inp))
    /\ \E t \in AnnTokens(runs[1].before[1]) : t.mtag
    /\ \E t \in AnnTokens(runs[1].before[1]) :
          ~t.mtag /\ t.setting = runs[1].inp.setting
    /\ runs[1].exit = ""
    /\ runs[1].after = runs[1].before

----------------------------------------------------------------------------
(* The scope state of a new file *)

\* the file variables f are those of a file no line of which has been
\* processed
FreshScopeState(f) ==
    /\ f.nested_lvl = 0 /\ f.nested_increment = 0
    /\ ~f.f_multiline_active
    /\ f.f_multicommd = None
    /\ DOMAIN f.nested_optn_db = {}
    /\ ~f.f_filemodified

\* C36: every file starts from fresh scope state: at the first line of each
\* file nested_level = 0, nested_increment = 0, multiline_active = false,
\* multiline_was_commented is null, the nested option stack is empty and
\* the modified flag is false, however the previous file ended
C36_FreshScopeState ==
    /\ (pc = "line" /\ Len(newlines) = 0) => FreshScopeState(fdb)
    /\ (pc = "line" /\ Len(newlines) >= 1)
       => FreshScopeState(pre[1]) /\ LevelAt(1) = 0

\* the second file is about to be processed after a first file that was
\* rewritten and ended inside the scope its only line opened
C36_Witness ==
    /\ pc = "line" /\ fidx = 2 /\ Len(newlines) = 0
    /\ Applying
    /\ Len(before[1]) = 1
    /\ \E t \in AnnTokens(before[1]) : t.mtag /\ t.optn = InpOptn(inp)
    /\ 1 \in written
    /\ FreshScopeState(fdb)

----------------------------------------------------------------------------
(* Files written before the run is aborted *)

\* _process_file, lines 1126-1141: the file variables and the new lines
\* after the first n lines of a file that is processed first in its run
RECURSIVE ProcessedUpTo(_, _, _)
ProcessedUpTo(file, in, n) ==
    IF n = 0
    THEN [fdb |-> FileVarsDatabase(IndicatorAlone(file)), newlines |-> <<>>]
    ELSE LET p == ProcessedUpTo(file, in, n - 1)
             r == process_line(file[n], p.fdb, in, <<>>, {})
         IN [fdb |-> r.fdb, newlines |-> Append(p.newlines, r.newline)]

\* the last run was aborted on an invalid variable regex, and no run has
\* been started since: fidx is the file it was aborted in
AbortedOnRegex ==
    /\ pc = "idle" /\ runs # <<>>
    /\ runs[Len(runs)].exit = "InvalidVariableRegex"

\* C37: no rollback on abort: files are processed and rewritten one after
\* another, so if a run aborts on an invalid variable regex while
\* processing file k, every file before k that was modified remains
\* rewritten on disk while file k and all later files are untouched
C37_NoRollback ==
    AbortedOnRegex =>
       /\ fidx \in 1..Len(disk)
       /\ \A f \in fidx..Len(disk) :
             /\ runs[Len(runs)].after[f] = runs[Len(runs)].before[f]
             /\ f \notin runs[Len(runs)].written
       /\ \A f \in 1..(fidx - 1) :
             IF ProcessedUpTo(runs[Len(runs)].before[f], runs[Len(runs)].inp,
                              Len(runs[Len(runs)].before[f])).fdb.f_filemodified
             THEN /\ f \in runs[Len(runs)].written
                  /\ runs[Len(runs)].after[f]
                     = ProcessedUpTo(runs[Len(runs)].before[f],
                                     runs[Len(runs)].inp,
                                     Len(runs[Len(runs)].before[f])).newlines
             ELSE /\ f \notin runs[Len(runs)].written
                  /\ runs[Len(runs)].after[f] = runs[Len(runs)].before[f]

\* a run over three files was aborted in the second file after a line of it
\* had been changed; the first file had been rewritten
C37_Witness ==
    /\ AbortedOnRegex
    /\ Len(disk) = 3 /\ fidx = 2
    /\ 1 \in runs[1].written
    /\ runs[1].after[1] # runs[1].before[1]
    /\ Len(newlines) >= 1 /\ newlines[1] # disk[2][1]
    /\ runs[1].after[2] = runs[1].before[2]
    /\ runs[1].after[3] = runs[1].before[3]

----------------------------------------------------------------------------
(* Options named more than once on a line *)

\* the database after the observations of seq, made in the order of seq
RECURSIVE InOrder(_)
InOrder(seq) ==
    IF seq = <<>> THEN <<>>
    ELSE Observe(InOrder(SubSeq(seq, 1, Len(seq) - 1)), seq[Len(seq)].key,
                 seq[Len(seq)].f_comment, seq[Len(seq)].count)

\* the observation made by the step
Observed == pre'[Len(pre')]

\* C38: a Both (null) entry is not sticky: a later observation of the same
\* (option, setting) pair on a line where the option occurs once overwrites
\* it with Active or Inactive, so the final state of a pair that was ever
\* observed with inline count >= 2 depends on the order of the observations
C38_BothNotSticky ==
    [][(/\ pc = "merge" /\ Len(pre') = Len(pre) + 1
        /\ Observed.count = 1
        /\ EntryOf(optns_settings_db, Observed.key) = "Both")
       => EntryOf(optns_settings_db', Observed.key)
          = IF Observed.f_comment THEN "Inactive" ELSE "Active"]_vars

\* the same observations of @o a, one of them on a line that names @o
\* twice, have left the entry in another state than they leave it in in the
\* order they were given in; the last of them overwrote Both
C38_Witness ==
    /\ pc = "merge" /\ plan = <<>>
    /\ Len(pre) = 3
    /\ \A i \in 1..3 : pre[i].key = <<O, "a">>
    /\ pre[2].count = 2 /\ pre[3].count = 1
    /\ EntryOf(InOrder(SubSeq(pre, 1, 2)), <<O, "a">>) = "Both"
    /\ EntryOf(optns_settings_db, <<O, "a">>) \in {"Active", "Inactive"}
    /\ optns_settings_db = InOrder(pre)
    /\ EntryOf(InOrder(before), <<O, "a">>)
       # EntryOf(optns_settings_db, <<O, "a">>)

----------------------------------------------------------------------------
(* Settings no annotation carries *)

\* line i of the file as it is classified outside every scope, with the
\* comment indicator of the file
Standalone(file, i) == Classify(file[i], IndicatorAlone(file), 0)

\* line i of the file is an uncommented line that carries an annotation of
\* the option o whose setting is not a variable setting
UncommentedPlain(file, i, o) ==
    /\ Standalone(file, i).matched /\ ~Standalone(file, i).f_comment
    /\ \E m \in 1..Len(Standalone(file, i).tag_optn_setting_matches) :
          /\ Standalone(file, i).tag_optn_setting_matches[m].optn = o
          /\ Standalone(file, i).tag_optn_setting_matches[m].setting
             \notin ANY_VAR_SETTING

\* no annotation of the files carries the option o with the setting st
SettingAbsent(files, o, st) ==
    \A f \in 1..Len(files) :
       \A t \in AnnTokens(files[f]) : ~(t.optn = o /\ t.setting = st)

\* the run r has commented every uncommented line with a non-variable
\* annotation of the option o, and has left none
CommentsAll(r, o) ==
    \A f \in 1..Len(r.before) :
       /\ Len(r.after[f]) = Len(r.before[f])
       /\ \A i \in 1..Len(r.before[f]) :
             /\ UncommentedPlain(r.before[f], i, o)
                => r.after[f][i]
                   = comment(r.before[f][i], IndicatorAlone(r.before[f]))
             /\ ~UncommentedPlain(r.after[f], i, o)

\* C39: apply does not check that the requested setting exists: applying
\* O=S when no annotation O S occurs in any file comments every uncommented
\* line that carries a non-variable annotation of O, leaving option O with
\* no active setting
C39_AbsentSettingCommentsAll ==
    \A k \in 1..Len(runs) :
       (/\ IsApply(runs[k].inp) /\ runs[k].exit = ""
        /\ SettingAbsent(runs[k].before, InpOptn(runs[k].inp),
                         runs[k].inp.setting))
       => CommentsAll(runs[k], InpOptn(runs[k].inp))

\* the same for runs over one file in which no line stands under a commented
\* marker
C39_AbsentSettingOneFile ==
    \A k \in 1..Len(runs) :
       (/\ IsApply(runs[k].inp) /\ runs[k].exit = ""
        /\ SettingAbsent(runs[k].before, InpOptn(runs[k].inp),
                         runs[k].inp.setting)
        /\ Len(runs[k].before) = 1
        /\ \A i \in 1..Len(runs[k].before[1]) :
              ~CommentedMarker(Classify(runs[k].before[1][i],
                                        IndicatorAlone(runs[k].before[1]), 0)))
       => CommentsAll(runs[k], InpOptn(runs[k].inp))

----------------------------------------------------------------------------
(* Keys of the nested option stack *)

\* the keys of the stack of the file variables f are the levels below the
\* nested level, the pending increment applied
KeysBelowLevel(f) ==
    DOMAIN f.nested_optn_db = 0..(f.nested_lvl + f.nested_increment - 1)

\* C40: at every line boundary, after the pending increment has been
\* applied, the keys of the nested option stack are exactly
\* 0..nested_level-1; hence the lookup of the stack entry nested_level-1 on
\* an uncommented multi-line marker never fails when the stack is non-empty,
\* and nested_level changes by at most one between consecutive lines
C40_StackKeys ==
    /\ pc = "line" =>
          /\ KeysBelowLevel(fdb)
          /\ \A i \in Done :
                /\ KeysBelowLevel(pre[i])
                /\ LevelAfter(i) - LevelAt(i) \in {-1, 0, 1}
    /\ \A k \in 1..Len(runs) : runs[k].exit # "KeyError"

\* the nested level changes by at most one between consecutive lines
C40_LevelStepsByOne ==
    pc = "line" =>
       \A i \in Done : LevelAfter(i) - LevelAt(i) \in {-1, 0, 1}

\* no run ends in the KeyError of the lookup
C40_LookupNeverFails ==
    \A k \in 1..Len(runs) : runs[k].exit # "KeyError"

\* a run has gone through a marker that opened a commented scope, a second
\* one that opened a scope inside it, and the marker that closed the inner
\* scope: the lookup found the entry of level 1 and the stack is left with
\* the entry of level 0
C40_Witness ==
    /\ pc = "line" /\ Len(newlines) >= 3
    /\ LevelAt(2) = 1 /\ LevelAt(3) = 2
    /\ DOMAIN StackAfter(2) = {0, 1}
    /\ ClosedAt(3)
    /\ DOMAIN StackAfter(3) = {0}
    /\ LevelAfter(3) = 1
    /\ KeysBelowLevel(fdb)

====
